---- MODULE Spec2Model ----
(***************************************************************************)
(* A model of the DMG emulator core: the emulator host (src/src/emu.rs),   *)
(* its devices (bus, timer, OAM-DMA engine, interrupt line, the PPU's OAM  *)
(* and VRAM) and the instruction interpreter (src/src/cpu.rs).             *)
(*                                                                         *)
(* The host is one record, emu, and every CpuContext method is an operator *)
(* from a host record to a host record, so that a CPU step is the          *)
(* composition of the memory cycles its code performs.  A Rust panic is    *)
(* the field fault: once it is set the process has aborted and nothing     *)
(* runs any more.                                                          *)
(*                                                                         *)
(* The 64 KiB arrays (bus bytes, ROM image, VRAM, OAM) are kept sparse: a  *)
(* function from the addresses that hold a non-zero byte to that byte.     *)
(* Every array of the program starts zeroed, so the sparse function is the *)
(* array itself, not an abstraction of it.                                 *)
(***************************************************************************)
EXTENDS Naturals, Integers, Sequences, FiniteSets, TLC

VARIABLES emu, cpu, last, threads

vars == <<emu, cpu, last, threads>>

-----------------------------------------------------------------------------
(* Bounds of the model. *)

\* M-cycles a run of the host-level specifications may take.
MaxCycles == 5

\* CPU steps of a run of the interpreter's specification.
MaxSteps == 8

\* M-cycles the OAM-DMA specification lets pass after the trigger.
MaxDmaCycles == 166

-----------------------------------------------------------------------------
(* Fixed-width arithmetic and bit operations. *)

Pow2(n) == 2 ^ n

U8(x) == x % 256

U16(x) == x % 65536

Bit(v, n) == (v \div Pow2(n)) % 2

RECURSIVE And(_, _)
And(a, b) ==
    IF a = 0 \/ b = 0 THEN 0
    ELSE (a % 2) * (b % 2) + 2 * And(a \div 2, b \div 2)

RECURSIVE Or(_, _)
Or(a, b) ==
    IF a = 0 THEN b
    ELSE IF b = 0 THEN a
    ELSE (IF a % 2 = 1 \/ b % 2 = 1 THEN 1 ELSE 0) + 2 * Or(a \div 2, b \div 2)

RECURSIVE Xor(_, _)
Xor(a, b) ==
    IF a = 0 THEN b
    ELSE IF b = 0 THEN a
    ELSE ((a + b) % 2) + 2 * Xor(a \div 2, b \div 2)

Not8(a) == 255 - a

\* The value of a byte read as an i8 and widened to u16 (e8 as u16).
SignExt(b) == IF b >= 128 THEN 65536 - (256 - b) ELSE b

-----------------------------------------------------------------------------
(* Sparse zero-initialised arrays. *)

Get(m, a) == IF a \in DOMAIN m THEN m[a] ELSE 0

Put(m, a, v) ==
    IF v = 0
    THEN [x \in DOMAIN m \ {a} |-> m[x]]
    ELSE [x \in DOMAIN m \cup {a} |-> IF x = a THEN v ELSE m[x]]

Empty == [x \in {} |-> 0]

-----------------------------------------------------------------------------
(* Hardware register addresses (bus.rs, enum HardwareRegister). *)

REG_P1 == 65280
REG_SB == 65281
REG_SC == 65282
REG_DIV == 65284
REG_TIMA == 65285
REG_TMA == 65286
REG_TAC == 65287
REG_IF == 65295
REG_LCDC == 65344
REG_STAT == 65345
REG_SCY == 65346
REG_SCX == 65347
REG_LY == 65348
REG_LYC == 65349
REG_DMA == 65350
REG_BGP == 65351
REG_OBP0 == 65352
REG_OBP1 == 65353
REG_WY == 65354
REG_WX == 65355
REG_IE == 65535

\* HardwareRegister::from_u16 is Some(..) exactly on these addresses.
HardwareRegisters ==
    {REG_P1, REG_SB, REG_SC, REG_DIV, REG_TIMA, REG_TMA, REG_TAC, REG_IF,
     REG_LCDC, REG_STAT, REG_SCY, REG_SCX, REG_LY, REG_LYC, REG_DMA, REG_BGP,
     REG_OBP0, REG_OBP1, REG_WY, REG_WX, REG_IE}

\* Interrupt flag bits (interrupts.rs).
VBLANK == 1
LCD == 2
TIMER == 4
SERIAL == 8
JOYPAD == 16

\* Length of the cartridge image: a 32 KiB no-mapper ROM.
RomLen == 32768

\* Timer::new: the divider at power-on.
DivInit == 44032

-----------------------------------------------------------------------------
(* Interrupt line (interrupts.rs). *)

\* bitflags from_bits_truncate for InterruptFlag: the five defined bits.
from_bits_truncate(v) == v % 32

\* f & (!f).wrapping_add(1)
isolate_rightmost_one(f) == And(f, U8(Not8(f) + 1))

highest_priority(f) == from_bits_truncate(isolate_rightmost_one(f))

\* The handler address of the highest-priority bit of f; 0 stands for the
\* panic "Invalid interrup flag." on an empty flag set.
get_hadler_address(f) ==
    LET high_f == highest_priority(f)
    IN  IF And(high_f, VBLANK) # 0 THEN 64
        ELSE IF And(high_f, LCD) # 0 THEN 72
        ELSE IF And(high_f, TIMER) # 0 THEN 80
        ELSE IF And(high_f, SERIAL) # 0 THEN 88
        ELSE IF And(high_f, JOYPAD) # 0 THEN 96
        ELSE 0

\* InterruptLine::request_interrupt: only the line's own field is touched.
request_interrupt(e, f) ==
    [e EXCEPT !.interrupts.interrupt_flag = Or(@, f)]

-----------------------------------------------------------------------------
(* Memory bus (bus.rs). *)

InRange(a, lo, hi) == lo <= a /\ a <= hi

\* The regions MemoryBus::read serves from the cartridge's byte vector.
RomBacked(a) == InRange(a, 0, 32767) \/ InRange(a, 40960, 49151)

\* 0xA000, where the cartridge-RAM window begins.
CartRamBase == 40960

\* MemoryBus::read indexes rom.data[address]: out of range is a panic.
bus_read_ok(e, a) == RomBacked(a) => a < RomLen

bus_read(e, a) ==
    IF RomBacked(a) THEN Get(e.rom, a)
    ELSE IF InRange(a, 57344, 65023) THEN 0
    ELSE IF InRange(a, 65184, 65279) THEN 0
    ELSE Get(e.bytes, a)

bus_write(e, a, v) == [e EXCEPT !.bytes = Put(@, a, v)]

-----------------------------------------------------------------------------
(* Timer (timer.rs). *)

\* bitflags from_bits_truncate for TacRegister: three defined bits.
tac_from_bits_truncate(v) == v % 8

TimerBit(tac) ==
    CASE tac % 4 = 0 -> 9
      [] tac % 4 = 1 -> 3
      [] tac % 4 = 2 -> 5
      [] OTHER -> 7

\* One T-cycle of the timer.
Timer_tick(e) ==
    LET t == e.timer
        prev_div == t.div
        div == U16(prev_div + 1)
        n == TimerBit(t.tac)
        timer_update == /\ Bit(t.tac, 2) = 1
                        /\ Bit(prev_div, n) = 1
                        /\ Bit(div, n) = 0
        tima1 == U8(t.tima + 1)
        reload == timer_update /\ tima1 = 255
        e1 == [e EXCEPT !.timer.div = div,
                        !.timer.tima = IF reload THEN t.tma
                                       ELSE IF timer_update THEN tima1
                                       ELSE @]
    IN  IF reload THEN request_interrupt(e1, TIMER) ELSE e1

Timer_read(e, a) ==
    CASE a = REG_DIV -> e.timer.div \div 256
      [] a = REG_TIMA -> e.timer.tima
      [] a = REG_TMA -> e.timer.tma
      [] OTHER -> e.timer.tac

Timer_write(e, a, v) ==
    CASE a = REG_DIV -> [e EXCEPT !.timer.div = 0]
      [] a = REG_TIMA -> [e EXCEPT !.timer.tima = v]
      [] a = REG_TMA -> [e EXCEPT !.timer.tma = v]
      [] OTHER -> [e EXCEPT !.timer.tac = tac_from_bits_truncate(v)]

-----------------------------------------------------------------------------
(* PPU memories (ppu.rs). *)

\* Both an absolute OAM address and a DMA byte index are accepted.
oam_index(a) == IF a >= 65024 THEN a - 65024 ELSE a

oam_read(e, a) == Get(e.ppu.oam, oam_index(a))

\* SpriteFlags defines all eight bits, so from_bits_truncate keeps the byte.
oam_write(e, a, v) == [e EXCEPT !.ppu.oam = Put(@, oam_index(a), v)]

vram_read(e, a) == Get(e.ppu.vram, a - 32768)

\* A variant of vram_write that drops the byte.
vram_write_Dropped(e, a, v) == e

vram_write(e, a, v) == [e EXCEPT !.ppu.vram = Put(@, a - 32768, v)]

-----------------------------------------------------------------------------
(* LCD register block (lcd.rs), owned by the PPU. *)

\* White, light grey, dark grey, black: the ARGB words 0xFFFFFFFF,
\* 0xFFAAAAAA, 0xFF555555, 0xFF000000, each as <<high half, low half>>.
DEFAULT_COLORS ==
    <<(<<65535, 65535>>), (<<65450, 43690>>), (<<65365, 21845>>), (<<65280, 0>>)>>

\* The LCD-mode numbers of enum LcdMode.
MODE_OAM == 2

\* The registers LCD::write stores, DMA (which it refuses) aside.
LcdRegisters ==
    {REG_LCDC, REG_STAT, REG_SCY, REG_SCX, REG_LY, REG_LYC, REG_BGP,
     REG_OBP0, REG_OBP1, REG_WY, REG_WX}

\* bitflags from_bits_truncate for LcdStatus: bit 7 is not defined.
LcdStatus_from_bits_truncate(v) == v % 128

LCD_new ==
    [lcdc |-> 145, lcds |-> 0, scroll_x |-> 0, scroll_y |-> 0, ly |-> 0,
     lyc |-> 0, dma |-> 0, bg_palette |-> 252, obj_palette |-> <<255, 255>>,
     win_x |-> 0, win_y |-> 0,
     bg_colors |-> DEFAULT_COLORS,
     sp0_colors |-> DEFAULT_COLORS,
     sp1_colors |-> DEFAULT_COLORS]

\* Clear the two mode bits of STAT, then set the mode.
set_mode(l, mode) ==
    [l EXCEPT !.lcds = LcdStatus_from_bits_truncate(Or(@ - (@ % 4), mode))]

\* The four colours selected by the 2-bit fields of color_indices.
update_palette(color_indices) ==
    [i \in 1..4 |->
        DEFAULT_COLORS[((color_indices \div Pow2(2 * (i - 1))) % 4) + 1]]

\* LCD::write for the registers of LcdRegisters.
LCD_write(l, a, v) ==
    CASE a = REG_LCDC -> [l EXCEPT !.lcdc = v]
      [] a = REG_STAT -> [l EXCEPT !.lcds = LcdStatus_from_bits_truncate(v)]
      [] a = REG_SCY -> [l EXCEPT !.scroll_y = v]
      [] a = REG_SCX -> [l EXCEPT !.scroll_x = v]
      [] a = REG_LY -> [l EXCEPT !.ly = v]
      [] a = REG_LYC -> [l EXCEPT !.lyc = v]
      [] a = REG_BGP -> [l EXCEPT !.bg_palette = v,
                                  !.bg_colors = update_palette(v)]
      [] a = REG_OBP0 -> [l EXCEPT !.obj_palette[1] = v,
                                   !.sp0_colors = update_palette(v - (v % 4))]
      [] a = REG_OBP1 -> [l EXCEPT !.obj_palette[2] = v,
                                   !.sp1_colors = update_palette(v - (v % 4))]
      [] a = REG_WY -> [l EXCEPT !.win_y = v]
      [] a = REG_WX -> [l EXCEPT !.win_x = v]

\* PPU::lcd_write: the only way into the block from outside the PPU.
lcd_write(e, a, v) == [e EXCEPT !.ppu.lcd = LCD_write(@, a, v)]

\* LCD::read for the registers of LcdRegisters.
LCD_read(l, a) ==
    CASE a = REG_LCDC -> l.lcdc
      [] a = REG_STAT -> l.lcds
      [] a = REG_SCY -> l.scroll_y
      [] a = REG_SCX -> l.scroll_x
      [] a = REG_LY -> l.ly
      [] a = REG_LYC -> l.lyc
      [] a = REG_BGP -> l.bg_palette
      [] a = REG_OBP0 -> l.obj_palette[1]
      [] a = REG_OBP1 -> l.obj_palette[2]
      [] a = REG_WY -> l.win_y
      [] a = REG_WX -> l.win_x

\* The bits of LcdControl and LcdStatus.
LCD_PPU_ENABLE == 128
WINDOW_TILE_MAP_AREA == 64
WINDOW_ENABLE == 32
BG_WINDOW_TILE_DATA_AREA == 16
BG_TILE_MAP_AREA == 8
OBJ_SIZE == 4
OBJ_ENABLE == 2
BG_WINDOW_ENABLE == 1
LYC_INT_SELECT == 64
OAM_INT_SELECT == 32
VBLANK_INT_SELECT == 16
HBLANK_INT_SELECT == 8
LYC_EQUAL_LY == 4

\* The other LCD-mode numbers of enum LcdMode.
MODE_HBLANK == 0
MODE_VBLANK == 1
MODE_XFER == 3

\* bitflags contains, for a flag of one bit.
contains(flags, flag) == (flags \div flag) % 2 = 1

get_mode(l) == l.lcds % 4

get_bg_map_area(l) ==
    IF contains(l.lcdc, BG_TILE_MAP_AREA) THEN 39936 ELSE 38912

get_win_map_area(l) ==
    IF contains(l.lcdc, WINDOW_TILE_MAP_AREA) THEN 39936 ELSE 38912

get_bgw_data_area(l) ==
    IF contains(l.lcdc, BG_WINDOW_TILE_DATA_AREA) THEN 32768 ELSE 34816

get_sprite_height(l) == IF contains(l.lcdc, OBJ_SIZE) THEN 16 ELSE 8

is_window_visible(l) ==
    contains(l.lcdc, WINDOW_ENABLE) /\ l.win_x <= 166 /\ l.win_y < 144

\* PixelFifo::new.
PixelFifo_new ==
    [fetch_state |-> "Tile", fifo |-> <<>>, line_x |-> 0, pushed_x |-> 0,
     fetch_x |-> 0, bgw_fetch_data |-> <<0, 0, 0>>,
     fetch_entry_data |-> <<0, 0, 0, 0, 0, 0>>,
     map_y |-> 0, map_x |-> 0, tile_y |-> 0, fifo_x |-> 0]

\* PPU::new: a fresh block put into OAM-scan mode.  The wall-clock fields
\* that pace frames (timer, start_time, prev_frame_time, frame_count) are
\* left out; video_buffer, which nothing reads back, is kept as the last
\* pixel stored in it.
PPU_new ==
    [oam |-> Empty, vram |-> Empty, line_ticks |-> 0,
     lcd |-> set_mode(LCD_new, MODE_OAM),
     current_frame |-> 0,
     video_buffer |-> [index |-> 0, color |-> <<0, 0>>],
     pixel_fifo |-> PixelFifo_new,
     line_sprites |-> <<>>, fetched_entries |-> <<>>, window_line |-> 0]

-----------------------------------------------------------------------------
(* OAM-DMA engine (dma.rs). *)

DMA_start(e, v) ==
    [e EXCEPT !.dma = [active |-> TRUE, byte |-> 0, start_delay |-> 2,
                       value |-> v]]

\* The source address of the next byte: the page base, whatever the byte.
DMA_source(d) == d.value * 256

DMA_tick_cycle(e) ==
    LET d == e.dma
        address == DMA_source(d)
    IN  IF ~d.active THEN e
        ELSE IF d.start_delay > 0
        THEN [e EXCEPT !.dma.start_delay = @ - 1]
        ELSE IF ~bus_read_ok(e, address)
        THEN [e EXCEPT !.fault = "rom_index_out_of_bounds"]
        ELSE [oam_write(e, d.byte, bus_read(e, address))
                EXCEPT !.dma.byte = d.byte + 1,
                       !.dma.active = (d.byte + 1 < 160)]

-----------------------------------------------------------------------------
(* Emulator host: impl CpuContext for Emulator (emu.rs). *)

Running(e) == e.fault = "none"

\* One iteration of tick_cycle's loop body.
TCycle(e) == Timer_tick([e EXCEPT !.ticks = @ + 1])

\* for _ in 0..k
RECURSIVE TCycles(_, _)
TCycles(e, k) == IF k = 0 THEN e ELSE TCycles(TCycle(e), k - 1)

tick_cycle(e) ==
    IF ~Running(e) THEN e ELSE DMA_tick_cycle(TCycles(e, 4))

peek_ok(e, a) ==
    IF InRange(a, 32768, 40959) THEN TRUE
    ELSE IF InRange(a, 65024, 65183) THEN TRUE
    ELSE IF a \in {REG_DIV, REG_TIMA, REG_TMA, REG_TAC, REG_IF, REG_IE} THEN TRUE
    ELSE bus_read_ok(e, a)

\* A variant of peek without the gate on OAM while a DMA transfer runs.
peek_OamUngated(e, a) ==
    IF InRange(a, 32768, 40959) THEN vram_read(e, a)
    ELSE IF InRange(a, 65024, 65183) THEN oam_read(e, a)
    ELSE IF a \in {REG_DIV, REG_TIMA, REG_TMA, REG_TAC} THEN Timer_read(e, a)
    ELSE IF a = REG_IF THEN e.interrupts.interrupt_flag
    ELSE IF a = REG_IE THEN e.interrupts.interrupt_enable
    ELSE bus_read(e, a)

peek(e, a) ==
    IF InRange(a, 32768, 40959) THEN vram_read(e, a)
    ELSE IF InRange(a, 65024, 65183)
    THEN (IF e.dma.active THEN 255 ELSE oam_read(e, a))
    ELSE IF a \in {REG_DIV, REG_TIMA, REG_TMA, REG_TAC} THEN Timer_read(e, a)
    ELSE IF a = REG_IF THEN e.interrupts.interrupt_flag
    ELSE IF a = REG_IE THEN e.interrupts.interrupt_enable
    ELSE bus_read(e, a)

\* read_cycle: the tick, then the peek.  e is the host afterwards, v the byte
\* returned (0 when the peek panicked on the ROM vector's bounds).
Peeked(e, a) ==
    IF ~Running(e) THEN [e |-> e, v |-> 0]
    ELSE IF ~peek_ok(e, a)
    THEN [e |-> [e EXCEPT !.fault = "rom_index_out_of_bounds"], v |-> 0]
    ELSE [e |-> e, v |-> peek(e, a)]

\* A variant of read_cycle in the other order: the peek, then the tick.
read_cycle_PeekFirst(e, a) ==
    [e |-> tick_cycle(Peeked(e, a).e), v |-> Peeked(e, a).v]

read_cycle(e, a) == Peeked(tick_cycle(e), a)

\* The device side effects of a write, after the byte went to the bus array.
write_device(e, a, v) ==
    IF InRange(a, 32768, 40959) THEN vram_write(e, a, v)
    ELSE IF InRange(a, 65024, 65183)
    THEN (IF e.dma.active THEN e ELSE oam_write(e, a, v))
    ELSE IF a \in {REG_SB, REG_SC} THEN bus_write(e, a, v)
    ELSE IF a \in {REG_DIV, REG_TIMA, REG_TMA, REG_TAC} THEN Timer_write(e, a, v)
    ELSE IF a = REG_IF
    THEN [e EXCEPT !.interrupts.interrupt_flag = from_bits_truncate(v)]
    ELSE IF a = REG_DMA THEN DMA_start(e, v)
    ELSE IF a = REG_IE
    THEN [e EXCEPT !.interrupts.interrupt_enable = from_bits_truncate(v)]
    ELSE e

\* The body of write_cycle after its tick: the bus array, then the device.
Written(e, a, v) ==
    IF ~Running(e) THEN e ELSE write_device(bus_write(e, a, v), a, v)

\* A variant of write_cycle in the other order: the write, then the tick.
write_cycle_WriteFirst(e, a, v) == tick_cycle(Written(e, a, v))

write_cycle(e, a, v) == Written(tick_cycle(e), a, v)

\* get_interrupt compares the line with the bytes the bus holds.
interrupts_synchronized(e) ==
    /\ bus_read(e, REG_IE) = e.interrupts.interrupt_enable
    /\ bus_read(e, REG_IF) = e.interrupts.interrupt_flag

\* The pending set IE & IF (0 stands for None).
pending(e) == And(e.interrupts.interrupt_enable, e.interrupts.interrupt_flag)

get_interrupt(e) ==
    IF ~Running(e) THEN e
    ELSE IF ~interrupts_synchronized(e)
    THEN [e EXCEPT !.fault = "interrupt_registers_not_synchronized"]
    ELSE e

ack_interrupt(e, f) ==
    LET new_ifr == And(e.interrupts.interrupt_flag, Not8(highest_priority(f)))
    IN  IF ~Running(e) THEN e
        ELSE bus_write([e EXCEPT !.interrupts.interrupt_flag =
                                      from_bits_truncate(new_ifr)],
                       REG_IF, new_ifr)

-----------------------------------------------------------------------------
(* Power-on state (Emulator::new, CPU::new). *)

EmuNew(rom) ==
    [ticks |-> 0,
     timer |-> [div |-> DivInit, tima |-> 0, tma |-> 0, tac |-> 0],
     interrupts |-> [interrupt_enable |-> 0, interrupt_flag |-> 0],
     dma |-> [active |-> FALSE, byte |-> 0, start_delay |-> 0, value |-> 0],
     ppu |-> PPU_new,
     bytes |-> Empty,
     rom |-> rom,
     debug_msg |-> <<>>,
     \* Whether the build panics on integer overflow.
     overflow_checks |-> FALSE,
     fault |-> "none"]

\* Emulator::run calls this after every CPU::step: a byte of SB goes to the
\* debug message when SC holds 0x81, and SC is cleared.
debug_update(e) ==
    IF ~Running(e) THEN e
    ELSE IF bus_read(e, REG_SC) = 129
    THEN bus_write([e EXCEPT !.debug_msg = Append(@, bus_read(e, REG_SB))],
                   REG_SC, 0)
    ELSE e

-----------------------------------------------------------------------------
(* PPU dot machine (ppu.rs).  The u8 sums and differences written with     *)
(* plain + and - panic when the build checks overflow and wrap when it     *)
(* does not: overflow_checks says which build the host is.                 *)

LINES_PER_FRAME == 154
TICKS_PER_LINE == 456
YRES == 144
XRES == 160
OamScanDots == 80
MaxLineSprites == 10
MaxFetchedEntries == 3
SpriteCount == 40

Wrap8(x) == ((x % 256) + 256) % 256

\* The u8 expression of exact value x panics.
Ovf(e, x) == e.overflow_checks /\ (x < 0 \/ x > 255)

Overflow(e) == [e EXCEPT !.fault = "arithmetic_overflow"]

\* oam_ram[i] as a Sprite.
Sprite(e, i) ==
    [y |-> Get(e.ppu.oam, 4 * i), x |-> Get(e.ppu.oam, 4 * i + 1),
     tile_index |-> Get(e.ppu.oam, 4 * i + 2),
     flags |-> Get(e.ppu.oam, 4 * i + 3)]

\* SpriteFlags
PRIORITY == 128
Y_FLIP == 64
X_FLIP == 32
DMG_PALETTE == 16

\* VecDeque::insert(i, x), i counted from 0.
InsertAt(s, i, x) == SubSeq(s, 1, i) \o <<x>> \o SubSeq(s, i + 1, Len(s))

\* load_line_sprites' inner loop, for i in 0..n with n the length the
\* list had when the loop began: it inserts before every greater x it
\* meets and does not stop after the first.
RECURSIVE InsertSorted(_, _, _, _)
InsertSorted(s, sprite, i, n) ==
    IF i >= n THEN s
    ELSE IF s[i + 1].x > sprite.x
    THEN InsertSorted(InsertAt(s, i, sprite), sprite, i + 1, n)
    ELSE InsertSorted(s, sprite, i + 1, n)

\* The body of load_line_sprites for a sprite that is on the line.
AddLineSprite(s, sprite) ==
    IF s = <<>> \/ s[1].x > sprite.x THEN <<sprite>> \o s
    ELSE InsertSorted(s, sprite, 0, Len(s))

\* load_line_sprites from oam_ram[i] on.
RECURSIVE ScanOam(_, _)
ScanOam(e, i) ==
    IF i >= SpriteCount THEN e
    ELSE IF Sprite(e, i).x = 0 THEN ScanOam(e, i + 1)
    ELSE IF Len(e.ppu.line_sprites) >= MaxLineSprites THEN e
    ELSE IF Ovf(e, e.ppu.lcd.ly + 16) THEN Overflow(e)
    ELSE IF Sprite(e, i).y > Wrap8(e.ppu.lcd.ly + 16) THEN ScanOam(e, i + 1)
    ELSE IF Ovf(e, Sprite(e, i).y + get_sprite_height(e.ppu.lcd))
    THEN Overflow(e)
    ELSE IF Wrap8(Sprite(e, i).y + get_sprite_height(e.ppu.lcd))
            > Wrap8(e.ppu.lcd.ly + 16)
    THEN ScanOam([e EXCEPT !.ppu.line_sprites =
                               AddLineSprite(@, Sprite(e, i))], i + 1)
    ELSE ScanOam(e, i + 1)

load_line_sprites(e) == ScanOam(e, 0)

\* A variant of tick_oam whose scan lasts one dot longer.
tick_oam_ScanOneDotLonger(e) ==
    LET e1 == IF e.ppu.line_ticks > OamScanDots
              THEN [e EXCEPT !.ppu.lcd = set_mode(@, MODE_XFER),
                             !.ppu.pixel_fifo.fetch_state = "Tile",
                             !.ppu.pixel_fifo.line_x = 0,
                             !.ppu.pixel_fifo.fetch_x = 0,
                             !.ppu.pixel_fifo.pushed_x = 0,
                             !.ppu.pixel_fifo.fifo_x = 0]
              ELSE e
    IN  IF e.ppu.line_ticks = 1
        THEN load_line_sprites([e1 EXCEPT !.ppu.line_sprites = <<>>])
        ELSE e1

tick_oam(e) ==
    LET e1 == IF e.ppu.line_ticks >= OamScanDots
              THEN [e EXCEPT !.ppu.lcd = set_mode(@, MODE_XFER),
                             !.ppu.pixel_fifo.fetch_state = "Tile",
                             !.ppu.pixel_fifo.line_x = 0,
                             !.ppu.pixel_fifo.fetch_x = 0,
                             !.ppu.pixel_fifo.pushed_x = 0,
                             !.ppu.pixel_fifo.fifo_x = 0]
              ELSE e
    IN  IF e.ppu.line_ticks = 1
        THEN load_line_sprites([e1 EXCEPT !.ppu.line_sprites = <<>>])
        ELSE e1

\* (entry.x - 8) + (scroll_x % 8) as u8, or -1 where it panics.
SpX(e, entry) ==
    IF Ovf(e, entry.x - 8) THEN -1
    ELSE IF Ovf(e, Wrap8(entry.x - 8) + (e.ppu.lcd.scroll_x % 8)) THEN -1
    ELSE Wrap8(Wrap8(entry.x - 8) + (e.ppu.lcd.scroll_x % 8))

\* The condition of pipeline_load_sprite_tile for a sprite at sp_x:
\* "yes", "no", or "overflow" where one of its sums panics.
InFetchedTile(e, sp_x) ==
    LET fetch_x == e.ppu.pixel_fifo.fetch_x
    IN  IF sp_x >= fetch_x /\ Ovf(e, fetch_x + 8) THEN "overflow"
        ELSE IF sp_x >= fetch_x /\ sp_x < Wrap8(fetch_x + 8) THEN "yes"
        ELSE IF Ovf(e, sp_x + 8) THEN "overflow"
        ELSE IF Wrap8(sp_x + 8) < fetch_x THEN "no"
        ELSE IF Ovf(e, fetch_x + 8) THEN "overflow"
        ELSE IF Wrap8(sp_x + 8) < Wrap8(fetch_x + 8) THEN "yes"
        ELSE "no"

\* pipeline_load_sprite_tile from line_sprites[i] on (i counted from 1).
RECURSIVE LoadSpriteTile(_, _)
LoadSpriteTile(e, i) ==
    IF i > Len(e.ppu.line_sprites) THEN e
    ELSE IF SpX(e, e.ppu.line_sprites[i]) < 0 THEN Overflow(e)
    ELSE IF InFetchedTile(e, SpX(e, e.ppu.line_sprites[i])) = "overflow"
    THEN Overflow(e)
    ELSE IF InFetchedTile(e, SpX(e, e.ppu.line_sprites[i])) = "yes"
    THEN IF Len(e.ppu.fetched_entries) + 1 >= MaxFetchedEntries
         THEN [e EXCEPT !.ppu.fetched_entries =
                            Append(@, e.ppu.line_sprites[i])]
         ELSE LoadSpriteTile([e EXCEPT !.ppu.fetched_entries =
                                 Append(@, e.ppu.line_sprites[i])], i + 1)
    ELSE IF Len(e.ppu.fetched_entries) >= MaxFetchedEntries THEN e
    ELSE LoadSpriteTile(e, i + 1)

pipeline_load_sprite_tile(e) == LoadSpriteTile(e, 1)

\* ty of pipeline_load_sprite_data for one entry, or -1 where it panics.
SpriteTy(e, entry) ==
    LET ly == e.ppu.lcd.ly
        h == get_sprite_height(e.ppu.lcd)
        d == Wrap8(Wrap8(ly + 16) - entry.y)
        ty == Wrap8(d * 2)
    IN  IF Ovf(e, ly + 16) \/ Ovf(e, Wrap8(ly + 16) - entry.y)
           \/ Ovf(e, d * 2)
        THEN -1
        ELSE IF ~contains(entry.flags, Y_FLIP) THEN ty
        ELSE IF Ovf(e, (2 * h - 2) - ty) THEN -1
        ELSE Wrap8((2 * h - 2) - ty)

\* The VRAM address pipeline_load_sprite_data reads for one entry.
SpriteDataAddress(e, entry, offset) ==
    LET tile_index == IF get_sprite_height(e.ppu.lcd) = 16
                      THEN entry.tile_index - (entry.tile_index % 2)
                      ELSE entry.tile_index
    IN  32768 + tile_index * 16 + SpriteTy(e, entry) + offset

\* pipeline_load_sprite_data from fetched_entries[i] on (i counted from 0).
RECURSIVE LoadSpriteData(_, _, _)
LoadSpriteData(e, offset, i) ==
    IF i >= Len(e.ppu.fetched_entries) THEN e
    ELSE IF SpriteTy(e, e.ppu.fetched_entries[i + 1]) < 0 THEN Overflow(e)
    ELSE LoadSpriteData(
            [e EXCEPT !.ppu.pixel_fifo.fetch_entry_data[i * 2 + offset + 1] =
                vram_read(e, SpriteDataAddress(e, e.ppu.fetched_entries[i + 1],
                                               offset))],
            offset, i + 1)

pipeline_load_sprite_data(e, offset) == LoadSpriteData(e, offset, 0)

\* The tile number read from a tile map, rebased when the data area is
\* the one at 0x8800.
TileNumber(e, address) ==
    IF get_bgw_data_area(e.ppu.lcd) = 34816
    THEN U8(vram_read(e, address) + 128)
    ELSE vram_read(e, address)

\* The condition of pipeline_load_window_tile: "yes", "no" or "overflow".
InWindow(e) ==
    LET l == e.ppu.lcd
        fx == e.ppu.pixel_fifo.fetch_x
    IN  IF Ovf(e, fx + 7) THEN "overflow"
        ELSE IF Wrap8(fx + 7) < l.win_x THEN "no"
        ELSE IF Ovf(e, l.win_x + 158) THEN "overflow"
        ELSE IF Wrap8(fx + 7) >= Wrap8(l.win_x + 158) THEN "no"
        ELSE IF l.ly < l.win_y THEN "no"
        ELSE IF Ovf(e, l.win_y + XRES) THEN "overflow"
        ELSE IF l.ly < Wrap8(l.win_y + XRES) THEN "yes"
        ELSE "no"

pipeline_load_window_tile(e) ==
    IF ~is_window_visible(e.ppu.lcd) THEN e
    ELSE IF InWindow(e) = "overflow" THEN Overflow(e)
    ELSE IF InWindow(e) = "no" THEN e
    ELSE [e EXCEPT !.ppu.pixel_fifo.bgw_fetch_data[1] =
            TileNumber(e, get_win_map_area(e.ppu.lcd)
                + (Wrap8(Wrap8(e.ppu.pixel_fifo.fetch_x + 7)
                         - e.ppu.lcd.win_x) \div 8)
                + ((e.ppu.window_line \div 8) * 32))]

\* The Tile state of pipeline_fetch up to the sprite selection.
FetchTile(e) ==
    LET e1 == [e EXCEPT !.ppu.fetched_entries = <<>>]
        e2 == IF contains(e.ppu.lcd.lcdc, BG_WINDOW_ENABLE)
              THEN pipeline_load_window_tile(
                     [e1 EXCEPT !.ppu.pixel_fifo.bgw_fetch_data[1] =
                        TileNumber(e, get_bg_map_area(e.ppu.lcd)
                            + (e.ppu.pixel_fifo.map_x \div 8)
                            + ((e.ppu.pixel_fifo.map_y \div 8) * 32))])
              ELSE e1
    IN  IF Running(e2) /\ contains(e.ppu.lcd.lcdc, OBJ_ENABLE)
           /\ e.ppu.line_sprites # <<>>
        THEN pipeline_load_sprite_tile(e2)
        ELSE e2

\* The address of the low byte of the fetched tile's row.
TileDataAddress(e) ==
    get_bgw_data_area(e.ppu.lcd) + e.ppu.pixel_fifo.bgw_fetch_data[1] * 16
        + e.ppu.pixel_fifo.tile_y

\* One bit of a byte as 0 or 1.
Lo(data, bit) == (data \div Pow2(bit)) % 2

\* fetch_sprite_pixels from fetched_entries[i] on (i counted from 0):
\* the colour, or <<-1, -1>> where a sum panics.
RECURSIVE FetchSpritePixels(_, _, _, _)
FetchSpritePixels(e, bg_color_index, color, i) ==
    IF i >= Len(e.ppu.fetched_entries) THEN color
    ELSE
      LET entry == e.ppu.fetched_entries[i + 1]
          sp_x == SpX(e, entry)
          fifo_x == e.ppu.pixel_fifo.fifo_x
          offset == Wrap8(fifo_x - sp_x)
          bit == IF contains(entry.flags, X_FLIP) THEN offset ELSE 7 - offset
          color_index ==
              2 * Lo(e.ppu.pixel_fifo.fetch_entry_data[i * 2 + 2], bit)
                + Lo(e.ppu.pixel_fifo.fetch_entry_data[i * 2 + 1], bit)
      IN  IF sp_x < 0 \/ Ovf(e, sp_x + 8) THEN <<-1, -1>>
          ELSE IF Wrap8(sp_x + 8) < fifo_x \/ offset > 7 \/ color_index = 0
          THEN FetchSpritePixels(e, bg_color_index, color, i + 1)
          ELSE IF ~contains(entry.flags, PRIORITY) \/ bg_color_index = 0
          THEN IF contains(entry.flags, DMG_PALETTE)
               THEN e.ppu.lcd.sp1_colors[color_index + 1]
               ELSE e.ppu.lcd.sp0_colors[color_index + 1]
          ELSE FetchSpritePixels(e, bg_color_index, color, i + 1)

fetch_sprite_pixels(e, bg_color_index, default_color) ==
    FetchSpritePixels(e, bg_color_index, default_color, 0)

\* The colour index of pixel i of the fetched background row.
BgColorIndex(e, i) ==
    2 * Lo(e.ppu.pixel_fifo.bgw_fetch_data[3], 7 - i)
      + Lo(e.ppu.pixel_fifo.bgw_fetch_data[2], 7 - i)

\* The colour pipeline_fifo_add computes for pixel i.
PixelColor(e, i) ==
    LET color == IF contains(e.ppu.lcd.lcdc, BG_WINDOW_ENABLE)
                 THEN e.ppu.lcd.bg_colors[BgColorIndex(e, i) + 1]
                 ELSE e.ppu.lcd.bg_colors[1]
    IN  IF contains(e.ppu.lcd.lcdc, OBJ_ENABLE)
        THEN fetch_sprite_pixels(e, BgColorIndex(e, i), color)
        ELSE color

\* x of pipeline_fifo_add, an i32.
FifoAddX(e) == e.ppu.pixel_fifo.fetch_x - (8 - (e.ppu.lcd.scroll_x % 8))

\* The loop of pipeline_fifo_add from pixel i on.
RECURSIVE FifoAddFrom(_, _)
FifoAddFrom(e, i) ==
    IF i >= 8 THEN e
    ELSE IF PixelColor(e, i) = <<-1, -1>> THEN Overflow(e)
    ELSE IF FifoAddX(e) < 0 THEN FifoAddFrom(e, i + 1)
    ELSE IF Ovf(e, e.ppu.pixel_fifo.fifo_x + 1) THEN Overflow(e)
    ELSE FifoAddFrom(
            [e EXCEPT !.ppu.pixel_fifo.fifo = Append(@, PixelColor(e, i)),
                      !.ppu.pixel_fifo.fifo_x = Wrap8(@ + 1)],
            i + 1)

\* pipeline_fifo_add returns false exactly when the FIFO holds more than 8.
FifoFull(e) == Len(e.ppu.pixel_fifo.fifo) > 8

pipeline_fifo_add(e) == IF FifoFull(e) THEN e ELSE FifoAddFrom(e, 0)

pipeline_fetch(e) ==
    LET s == e.ppu.pixel_fifo.fetch_state
    IN  CASE s = "Tile" ->
               IF ~Running(FetchTile(e)) THEN FetchTile(e)
               ELSE IF Ovf(e, e.ppu.pixel_fifo.fetch_x + 8)
               THEN Overflow(FetchTile(e))
               ELSE [FetchTile(e) EXCEPT
                        !.ppu.pixel_fifo.fetch_state = "DataLow",
                        !.ppu.pixel_fifo.fetch_x = Wrap8(@ + 8)]
          [] s = "DataLow" ->
               LET e1 == pipeline_load_sprite_data(
                           [e EXCEPT !.ppu.pixel_fifo.bgw_fetch_data[2] =
                               vram_read(e, TileDataAddress(e))], 0)
               IN  IF ~Running(e1) THEN e1
                   ELSE [e1 EXCEPT !.ppu.pixel_fifo.fetch_state = "DataHigh"]
          [] s = "DataHigh" ->
               LET e1 == pipeline_load_sprite_data(
                           [e EXCEPT !.ppu.pixel_fifo.bgw_fetch_data[3] =
                               vram_read(e, TileDataAddress(e) + 1)], 1)
               IN  IF ~Running(e1) THEN e1
                   ELSE [e1 EXCEPT !.ppu.pixel_fifo.fetch_state = "Idle"]
          [] s = "Idle" -> [e EXCEPT !.ppu.pixel_fifo.fetch_state = "Push"]
          [] s = "Push" ->
               IF FifoFull(e) \/ ~Running(pipeline_fifo_add(e))
               THEN pipeline_fifo_add(e)
               ELSE [pipeline_fifo_add(e) EXCEPT
                        !.ppu.pixel_fifo.fetch_state = "Tile"]

\* The index pipeline_push_pixel stores at.
PixelIndex(e) == e.ppu.pixel_fifo.pushed_x + e.ppu.lcd.ly * XRES

\* A variant of pipeline_push_pixel that pops whenever the FIFO holds a pixel.
pipeline_push_pixel_PopsAnyPixel(e) ==
    IF e.ppu.pixel_fifo.fifo = <<>> THEN e
    ELSE
      LET e1 == [e EXCEPT !.ppu.pixel_fifo.fifo = Tail(@)]
          e2 == IF e.ppu.pixel_fifo.line_x < e.ppu.lcd.scroll_x % 8 THEN e1
                ELSE IF PixelIndex(e) >= YRES * XRES
                THEN [e1 EXCEPT !.fault = "video_buffer_index_out_of_bounds"]
                ELSE IF Ovf(e, e.ppu.pixel_fifo.pushed_x + 1)
                THEN Overflow(e1)
                ELSE [e1 EXCEPT
                        !.ppu.video_buffer =
                            [index |-> PixelIndex(e),
                             color |-> Head(e.ppu.pixel_fifo.fifo)],
                        !.ppu.pixel_fifo.pushed_x = Wrap8(@ + 1)]
      IN  IF ~Running(e2) THEN e2
          ELSE IF Ovf(e, e.ppu.pixel_fifo.line_x + 1) THEN Overflow(e2)
          ELSE [e2 EXCEPT !.ppu.pixel_fifo.line_x = Wrap8(@ + 1)]

pipeline_push_pixel(e) ==
    IF ~FifoFull(e) THEN e
    ELSE
      LET e1 == [e EXCEPT !.ppu.pixel_fifo.fifo = Tail(@)]
          e2 == IF e.ppu.pixel_fifo.line_x < e.ppu.lcd.scroll_x % 8 THEN e1
                ELSE IF PixelIndex(e) >= YRES * XRES
                THEN [e1 EXCEPT !.fault = "video_buffer_index_out_of_bounds"]
                ELSE IF Ovf(e, e.ppu.pixel_fifo.pushed_x + 1)
                THEN Overflow(e1)
                ELSE [e1 EXCEPT
                        !.ppu.video_buffer =
                            [index |-> PixelIndex(e),
                             color |-> Head(e.ppu.pixel_fifo.fifo)],
                        !.ppu.pixel_fifo.pushed_x = Wrap8(@ + 1)]
      IN  IF ~Running(e2) THEN e2
          ELSE IF Ovf(e, e.ppu.pixel_fifo.line_x + 1) THEN Overflow(e2)
          ELSE [e2 EXCEPT !.ppu.pixel_fifo.line_x = Wrap8(@ + 1)]

\* pipeline_process after its three assignments.
PipelineRun(e) ==
    LET e1 == IF e.ppu.line_ticks % 2 = 0 THEN pipeline_fetch(e) ELSE e
    IN  IF Running(e1) THEN pipeline_push_pixel(e1) ELSE e1

pipeline_process(e) ==
    LET l == e.ppu.lcd
    IN  IF Ovf(e, l.ly + l.scroll_y)
           \/ Ovf(e, e.ppu.pixel_fifo.fetch_x + l.scroll_x)
        THEN Overflow(e)
        ELSE PipelineRun(
               [e EXCEPT
                  !.ppu.pixel_fifo.map_y = Wrap8(l.ly + l.scroll_y),
                  !.ppu.pixel_fifo.map_x =
                      Wrap8(e.ppu.pixel_fifo.fetch_x + l.scroll_x),
                  !.ppu.pixel_fifo.tile_y =
                      (Wrap8(l.ly + l.scroll_y) % 8) * 2])

\* tick_xfer after pipeline_process.
EndTransfer(e) ==
    IF ~Running(e) \/ e.ppu.pixel_fifo.pushed_x < XRES THEN e
    ELSE
      LET e1 == [e EXCEPT !.ppu.pixel_fifo.fifo = <<>>,
                          !.ppu.lcd = set_mode(@, MODE_HBLANK)]
      IN  IF contains(e.ppu.lcd.lcds, HBLANK_INT_SELECT)
          THEN request_interrupt(e1, LCD)
          ELSE e1

tick_xfer(e) == EndTransfer(pipeline_process(e))

\* increment_ly from the LY increment on.
StepLy(e) ==
    LET ly == U8(e.ppu.lcd.ly + 1)
    IN  IF ly = e.ppu.lcd.lyc
        THEN LET e1 == [e EXCEPT !.ppu.lcd.ly = ly,
                                 !.ppu.lcd.lcds =
                                     IF contains(@, LYC_EQUAL_LY) THEN @
                                     ELSE @ + LYC_EQUAL_LY]
             IN  IF contains(e.ppu.lcd.lcds, LYC_INT_SELECT)
                 THEN request_interrupt(e1, LCD)
                 ELSE e1
        ELSE [e EXCEPT !.ppu.lcd.ly = ly,
                       !.ppu.lcd.lcds =
                           IF contains(@, LYC_EQUAL_LY) THEN @ - LYC_EQUAL_LY
                           ELSE @]

increment_ly(e) ==
    LET l == e.ppu.lcd
    IN  IF ~(is_window_visible(l) /\ l.ly >= l.win_y) THEN StepLy(e)
        ELSE IF Ovf(e, l.win_y + YRES) THEN Overflow(e)
        ELSE IF l.ly >= Wrap8(l.win_y + YRES) THEN StepLy(e)
        ELSE IF Ovf(e, e.ppu.window_line + 1) THEN Overflow(e)
        ELSE StepLy([e EXCEPT !.ppu.window_line = Wrap8(@ + 1)])

\* tick_vblank after increment_ly.
EndVblankLine(e) ==
    IF ~Running(e) THEN e
    ELSE IF e.ppu.lcd.ly >= LINES_PER_FRAME
    THEN [e EXCEPT !.ppu.lcd = [set_mode(@, MODE_OAM) EXCEPT !.ly = 0],
                   !.ppu.window_line = 0,
                   !.ppu.line_ticks = 0]
    ELSE [e EXCEPT !.ppu.line_ticks = 0]

tick_vblank(e) ==
    IF e.ppu.line_ticks >= TICKS_PER_LINE THEN EndVblankLine(increment_ly(e))
    ELSE e

\* A variant of EndVisibleLine that enters VBlank without counting the frame.
EndVisibleLine_FrameNotCounted(e) ==
    IF ~Running(e) THEN e
    ELSE IF e.ppu.lcd.ly >= YRES
    THEN LET e1 == request_interrupt(
                      [e EXCEPT !.ppu.lcd = set_mode(@, MODE_VBLANK),
                                !.ppu.line_ticks = 0],
                      VBLANK)
         IN  IF contains(e.ppu.lcd.lcds, VBLANK_INT_SELECT)
             THEN request_interrupt(e1, LCD)
             ELSE e1
    ELSE [e EXCEPT !.ppu.lcd = set_mode(@, MODE_OAM),
                   !.ppu.line_ticks = 0]

\* tick_hblank after increment_ly.
EndVisibleLine(e) ==
    IF ~Running(e) THEN e
    ELSE IF e.ppu.lcd.ly >= YRES
    THEN LET e1 == request_interrupt(
                      [e EXCEPT !.ppu.lcd = set_mode(@, MODE_VBLANK),
                                !.ppu.current_frame = @ + 1,
                                !.ppu.line_ticks = 0],
                      VBLANK)
         IN  IF contains(e.ppu.lcd.lcds, VBLANK_INT_SELECT)
             THEN request_interrupt(e1, LCD)
             ELSE e1
    ELSE [e EXCEPT !.ppu.lcd = set_mode(@, MODE_OAM),
                   !.ppu.line_ticks = 0]

tick_hblank(e) ==
    IF e.ppu.line_ticks >= TICKS_PER_LINE THEN EndVisibleLine(increment_ly(e))
    ELSE e

\* PPU::tick, with the host's interrupt line as ctx.
PPU_tick(e) ==
    LET e1 == [e EXCEPT !.ppu.line_ticks = @ + 1]
        lcd_mode == get_mode(e.ppu.lcd)
    IN  IF ~Running(e) THEN e
        ELSE CASE lcd_mode = MODE_OAM -> tick_oam(e1)
               [] lcd_mode = MODE_XFER -> tick_xfer(e1)
               [] lcd_mode = MODE_VBLANK -> tick_vblank(e1)
               [] lcd_mode = MODE_HBLANK -> tick_hblank(e1)

-----------------------------------------------------------------------------
(* Register file (cpu/register_file.rs). *)

Reg8 == {"A", "F", "B", "C", "D", "E", "H", "L"}

is_16bit(reg) == reg \in {"AF", "BC", "DE", "HL", "PC", "SP"}

read8(c, reg) == c.registers[reg]

read16(c, reg) ==
    CASE reg = "AF" -> c.registers["A"] * 256 + c.registers["F"]
      [] reg = "BC" -> c.registers["B"] * 256 + c.registers["C"]
      [] reg = "DE" -> c.registers["D"] * 256 + c.registers["E"]
      [] reg = "HL" -> c.registers["H"] * 256 + c.registers["L"]
      [] reg = "PC" -> c.pc
      [] OTHER -> c.sp

write8(c, reg, v) == [c EXCEPT !.registers[reg] = v]

\* write16(AF, v) masks the F cell and leaves the flags field alone.
write16(c, reg, v) ==
    LET lo == v % 256
        hi == v \div 256
    IN  CASE reg = "AF" ->
               [c EXCEPT !.registers["A"] = hi,
                         !.registers["F"] = And(lo, 240)]
          [] reg = "BC" ->
               [c EXCEPT !.registers["B"] = hi, !.registers["C"] = lo]
          [] reg = "DE" ->
               [c EXCEPT !.registers["D"] = hi, !.registers["E"] = lo]
          [] reg = "HL" ->
               [c EXCEPT !.registers["H"] = hi, !.registers["L"] = lo]
          [] reg = "PC" -> [c EXCEPT !.pc = v]
          [] OTHER -> [c EXCEPT !.sp = v]

\* The flags live in their own bitflags field, apart from the F cell.
zf(c) == Bit(c.flags, 7) = 1

nf(c) == Bit(c.flags, 6) = 1

hf(c) == Bit(c.flags, 5) = 1

cf(c) == Bit(c.flags, 4) = 1

SetFlag(c, n, value) ==
    [c EXCEPT !.flags = IF value THEN (IF Bit(@, n) = 1 THEN @ ELSE @ + Pow2(n))
                        ELSE (IF Bit(@, n) = 1 THEN @ - Pow2(n) ELSE @)]

set_zf(c, value) == SetFlag(c, 7, value)

set_nf(c, value) == SetFlag(c, 6, value)

set_hf(c, value) == SetFlag(c, 5, value)

set_cf(c, value) == SetFlag(c, 4, value)

\* The four setters one after the other.
set_znhc(c, z, n, h, cy) == set_cf(set_hf(set_nf(set_zf(c, z), n), h), cy)

RegisterFileNew ==
    [r \in Reg8 |->
        CASE r = "A" -> 1
          [] r = "F" -> 176
          [] r = "C" -> 19
          [] r = "E" -> 216
          [] r = "H" -> 1
          [] r = "L" -> 77
          [] OTHER -> 0]

-----------------------------------------------------------------------------
(* Instruction decoder (cpu/instructions.rs). *)

\* from_opcode, one row per opcode: itype, mode, reg1, reg2, cond.  PANIC is
\* an arm that panics (the illegal opcodes, and 0xCB outside the prefix path).
OpcodeTable ==
    <<
      <<"NOP", "IMP", "None", "None", "None">>, <<"LD", "R_D16", "BC", "None", "None">>,  \* 00
      <<"LD", "MR_R", "BC", "A", "None">>, <<"INC", "R", "BC", "None", "None">>,  \* 02
      <<"INC", "R", "B", "None", "None">>, <<"DEC", "R", "B", "None", "None">>,  \* 04
      <<"LD", "R_D8", "B", "None", "None">>, <<"RLCA", "IMP", "None", "None", "None">>,  \* 06
      <<"LD", "A16_R", "None", "SP", "None">>, <<"ADD", "R_R", "HL", "BC", "None">>,  \* 08
      <<"LD", "R_MR", "A", "BC", "None">>, <<"DEC", "R", "BC", "None", "None">>,  \* 0A
      <<"INC", "R", "C", "None", "None">>, <<"DEC", "R", "C", "None", "None">>,  \* 0C
      <<"LD", "R_D8", "C", "None", "None">>, <<"RRCA", "IMP", "None", "None", "None">>,  \* 0E
      <<"STOP", "IMP", "None", "None", "None">>, <<"LD", "R_D16", "DE", "None", "None">>,  \* 10
      <<"LD", "MR_R", "DE", "A", "None">>, <<"INC", "R", "DE", "None", "None">>,  \* 12
      <<"INC", "R", "D", "None", "None">>, <<"DEC", "R", "D", "None", "None">>,  \* 14
      <<"LD", "R_D8", "D", "None", "None">>, <<"RLA", "IMP", "None", "None", "None">>,  \* 16
      <<"JR", "D8", "None", "None", "None">>, <<"ADD", "R_R", "HL", "DE", "None">>,  \* 18
      <<"LD", "R_MR", "A", "DE", "None">>, <<"DEC", "R", "DE", "None", "None">>,  \* 1A
      <<"INC", "R", "E", "None", "None">>, <<"DEC", "R", "E", "None", "None">>,  \* 1C
      <<"LD", "R_D8", "E", "None", "None">>, <<"RRA", "IMP", "None", "None", "None">>,  \* 1E
      <<"JR", "D8", "None", "None", "NZ">>, <<"LD", "R_D16", "HL", "None", "None">>,  \* 20
      <<"LD", "HLI_R", "HL", "A", "None">>, <<"INC", "R", "HL", "None", "None">>,  \* 22
      <<"INC", "R", "H", "None", "None">>, <<"DEC", "R", "H", "None", "None">>,  \* 24
      <<"LD", "R_D8", "H", "None", "None">>, <<"DAA", "R", "A", "None", "None">>,  \* 26
      <<"JR", "D8", "None", "None", "Z">>, <<"ADD", "R_R", "HL", "HL", "None">>,  \* 28
      <<"LD", "R_HLI", "A", "HL", "None">>, <<"DEC", "R", "HL", "None", "None">>,  \* 2A
      <<"INC", "R", "L", "None", "None">>, <<"DEC", "R", "L", "None", "None">>,  \* 2C
      <<"LD", "R_D8", "L", "None", "None">>, <<"CPL", "IMP", "None", "None", "None">>,  \* 2E
      <<"JR", "D8", "None", "None", "NC">>, <<"LD", "R_D16", "SP", "None", "None">>,  \* 30
      <<"LD", "HLD_R", "HL", "A", "None">>, <<"INC", "R", "SP", "None", "None">>,  \* 32
      <<"INC", "MR", "HL", "None", "None">>, <<"DEC", "MR", "HL", "None", "None">>,  \* 34
      <<"LD", "MR_D8", "HL", "None", "None">>, <<"SCF", "IMP", "None", "None", "None">>,  \* 36
      <<"JR", "D8", "None", "None", "C">>, <<"ADD", "R_R", "HL", "SP", "None">>,  \* 38
      <<"LD", "R_HLD", "A", "HL", "None">>, <<"DEC", "R", "SP", "None", "None">>,  \* 3A
      <<"INC", "R", "A", "None", "None">>, <<"DEC", "R", "A", "None", "None">>,  \* 3C
      <<"LD", "R_D8", "A", "None", "None">>, <<"CCF", "IMP", "None", "None", "None">>,  \* 3E
      <<"LD", "R_R", "B", "B", "None">>, <<"LD", "R_R", "B", "C", "None">>,  \* 40
      <<"LD", "R_R", "B", "D", "None">>, <<"LD", "R_R", "B", "E", "None">>,  \* 42
      <<"LD", "R_R", "B", "H", "None">>, <<"LD", "R_R", "B", "L", "None">>,  \* 44
      <<"LD", "R_MR", "B", "HL", "None">>, <<"LD", "R_R", "B", "A", "None">>,  \* 46
      <<"LD", "R_R", "C", "B", "None">>, <<"LD", "R_R", "C", "C", "None">>,  \* 48
      <<"LD", "R_R", "C", "D", "None">>, <<"LD", "R_R", "C", "E", "None">>,  \* 4A
      <<"LD", "R_R", "C", "H", "None">>, <<"LD", "R_R", "C", "L", "None">>,  \* 4C
      <<"LD", "R_MR", "C", "HL", "None">>, <<"LD", "R_R", "C", "A", "None">>,  \* 4E
      <<"LD", "R_R", "D", "B", "None">>, <<"LD", "R_R", "D", "C", "None">>,  \* 50
      <<"LD", "R_R", "D", "D", "None">>, <<"LD", "R_R", "D", "E", "None">>,  \* 52
      <<"LD", "R_R", "D", "H", "None">>, <<"LD", "R_R", "D", "L", "None">>,  \* 54
      <<"LD", "R_MR", "D", "HL", "None">>, <<"LD", "R_R", "D", "A", "None">>,  \* 56
      <<"LD", "R_R", "E", "B", "None">>, <<"LD", "R_R", "E", "C", "None">>,  \* 58
      <<"LD", "R_R", "E", "D", "None">>, <<"LD", "R_R", "E", "E", "None">>,  \* 5A
      <<"LD", "R_R", "E", "H", "None">>, <<"LD", "R_R", "E", "L", "None">>,  \* 5C
      <<"LD", "R_MR", "E", "HL", "None">>, <<"LD", "R_R", "E", "A", "None">>,  \* 5E
      <<"LD", "R_R", "H", "B", "None">>, <<"LD", "R_R", "H", "C", "None">>,  \* 60
      <<"LD", "R_R", "H", "D", "None">>, <<"LD", "R_R", "H", "E", "None">>,  \* 62
      <<"LD", "R_R", "H", "H", "None">>, <<"LD", "R_R", "H", "L", "None">>,  \* 64
      <<"LD", "R_MR", "H", "HL", "None">>, <<"LD", "R_R", "H", "A", "None">>,  \* 66
      <<"LD", "R_R", "L", "B", "None">>, <<"LD", "R_R", "L", "C", "None">>,  \* 68
      <<"LD", "R_R", "L", "D", "None">>, <<"LD", "R_R", "L", "E", "None">>,  \* 6A
      <<"LD", "R_R", "L", "H", "None">>, <<"LD", "R_R", "L", "L", "None">>,  \* 6C
      <<"LD", "R_MR", "L", "HL", "None">>, <<"LD", "R_R", "L", "A", "None">>,  \* 6E
      <<"LD", "MR_R", "HL", "B", "None">>, <<"LD", "MR_R", "HL", "C", "None">>,  \* 70
      <<"LD", "MR_R", "HL", "D", "None">>, <<"LD", "MR_R", "HL", "E", "None">>,  \* 72
      <<"LD", "MR_R", "HL", "H", "None">>, <<"LD", "MR_R", "HL", "L", "None">>,  \* 74
      <<"HALT", "IMP", "None", "None", "None">>, <<"LD", "MR_R", "HL", "A", "None">>,  \* 76
      <<"LD", "R_R", "A", "B", "None">>, <<"LD", "R_R", "A", "C", "None">>,  \* 78
      <<"LD", "R_R", "A", "D", "None">>, <<"LD", "R_R", "A", "E", "None">>,  \* 7A
      <<"LD", "R_R", "A", "H", "None">>, <<"LD", "R_R", "A", "L", "None">>,  \* 7C
      <<"LD", "R_MR", "A", "HL", "None">>, <<"LD", "R_R", "A", "A", "None">>,  \* 7E
      <<"ADD", "R_R", "A", "B", "None">>, <<"ADD", "R_R", "A", "C", "None">>,  \* 80
      <<"ADD", "R_R", "A", "D", "None">>, <<"ADD", "R_R", "A", "E", "None">>,  \* 82
      <<"ADD", "R_R", "A", "H", "None">>, <<"ADD", "R_R", "A", "L", "None">>,  \* 84
      <<"ADD", "R_MR", "A", "HL", "None">>, <<"ADD", "R_R", "A", "A", "None">>,  \* 86
      <<"ADC", "R_R", "A", "B", "None">>, <<"ADC", "R_R", "A", "C", "None">>,  \* 88
      <<"ADC", "R_R", "A", "D", "None">>, <<"ADC", "R_R", "A", "E", "None">>,  \* 8A
      <<"ADC", "R_R", "A", "H", "None">>, <<"ADC", "R_R", "A", "L", "None">>,  \* 8C
      <<"ADC", "R_MR", "A", "HL", "None">>, <<"ADC", "R_R", "A", "A", "None">>,  \* 8E
      <<"SUB", "R_R", "A", "B", "None">>, <<"SUB", "R_R", "A", "C", "None">>,  \* 90
      <<"SUB", "R_R", "A", "D", "None">>, <<"SUB", "R_R", "A", "E", "None">>,  \* 92
      <<"SUB", "R_R", "A", "H", "None">>, <<"SUB", "R_R", "A", "L", "None">>,  \* 94
      <<"SUB", "R_MR", "A", "HL", "None">>, <<"SUB", "R_R", "A", "A", "None">>,  \* 96
      <<"SBC", "R_R", "A", "B", "None">>, <<"SBC", "R_R", "A", "C", "None">>,  \* 98
      <<"SBC", "R_R", "A", "D", "None">>, <<"SBC", "R_R", "A", "E", "None">>,  \* 9A
      <<"SBC", "R_R", "A", "H", "None">>, <<"SBC", "R_R", "A", "L", "None">>,  \* 9C
      <<"SBC", "R_MR", "A", "HL", "None">>, <<"SBC", "R_R", "A", "A", "None">>,  \* 9E
      <<"AND", "R_R", "A", "B", "None">>, <<"AND", "R_R", "A", "C", "None">>,  \* A0
      <<"AND", "R_R", "A", "D", "None">>, <<"AND", "R_R", "A", "E", "None">>,  \* A2
      <<"AND", "R_R", "A", "H", "None">>, <<"AND", "R_R", "A", "L", "None">>,  \* A4
      <<"AND", "R_MR", "A", "HL", "None">>, <<"AND", "R_R", "A", "A", "None">>,  \* A6
      <<"XOR", "R_R", "A", "B", "None">>, <<"XOR", "R_R", "A", "C", "None">>,  \* A8
      <<"XOR", "R_R", "A", "D", "None">>, <<"XOR", "R_R", "A", "E", "None">>,  \* AA
      <<"XOR", "R_R", "A", "H", "None">>, <<"XOR", "R_R", "A", "L", "None">>,  \* AC
      <<"XOR", "R_MR", "A", "HL", "None">>, <<"XOR", "R_R", "A", "A", "None">>,  \* AE
      <<"OR", "R_R", "A", "B", "None">>, <<"OR", "R_R", "A", "C", "None">>,  \* B0
      <<"OR", "R_R", "A", "D", "None">>, <<"OR", "R_R", "A", "E", "None">>,  \* B2
      <<"OR", "R_R", "A", "H", "None">>, <<"OR", "R_R", "A", "L", "None">>,  \* B4
      <<"OR", "R_MR", "A", "HL", "None">>, <<"OR", "R_R", "A", "A", "None">>,  \* B6
      <<"CP", "R_R", "A", "B", "None">>, <<"CP", "R_R", "A", "C", "None">>,  \* B8
      <<"CP", "R_R", "A", "D", "None">>, <<"CP", "R_R", "A", "E", "None">>,  \* BA
      <<"CP", "R_R", "A", "H", "None">>, <<"CP", "R_R", "A", "L", "None">>,  \* BC
      <<"CP", "R_MR", "A", "HL", "None">>, <<"CP", "R_R", "A", "A", "None">>,  \* BE
      <<"RET", "IMP", "None", "None", "NZ">>, <<"POP", "R", "BC", "None", "None">>,  \* C0
      <<"JP", "D16", "None", "None", "NZ">>, <<"JP", "D16", "None", "None", "None">>,  \* C2
      <<"CALL", "D16", "None", "None", "NZ">>, <<"PUSH", "R", "BC", "None", "None">>,  \* C4
      <<"ADD", "R_D8", "A", "None", "None">>, <<"RST", "RST", "None", "None", "None">>,  \* C6
      <<"RET", "IMP", "None", "None", "Z">>, <<"RET", "IMP", "None", "None", "None">>,  \* C8
      <<"JP", "D16", "None", "None", "Z">>, <<"PANIC", "IMP", "None", "None", "None">>,  \* CA
      <<"CALL", "D16", "None", "None", "Z">>, <<"CALL", "D16", "None", "None", "None">>,  \* CC
      <<"ADC", "R_D8", "A", "None", "None">>, <<"RST", "RST", "None", "None", "None">>,  \* CE
      <<"RET", "IMP", "None", "None", "NC">>, <<"POP", "R", "DE", "None", "None">>,  \* D0
      <<"JP", "D16", "None", "None", "NC">>, <<"PANIC", "IMP", "None", "None", "None">>,  \* D2
      <<"CALL", "D16", "None", "None", "NC">>, <<"PUSH", "R", "DE", "None", "None">>,  \* D4
      <<"SUB", "R_D8", "A", "None", "None">>, <<"RST", "RST", "None", "None", "None">>,  \* D6
      <<"RET", "IMP", "None", "None", "C">>, <<"RETI", "IMP", "None", "None", "None">>,  \* D8
      <<"JP", "D16", "None", "None", "C">>, <<"PANIC", "IMP", "None", "None", "None">>,  \* DA
      <<"CALL", "D16", "None", "None", "C">>, <<"PANIC", "IMP", "None", "None", "None">>,  \* DC
      <<"SBC", "R_D8", "A", "None", "None">>, <<"RST", "RST", "None", "None", "None">>,  \* DE
      <<"LDH", "A8_R", "None", "A", "None">>, <<"POP", "R", "HL", "None", "None">>,  \* E0
      <<"LDH", "MR_R", "C", "A", "None">>, <<"PANIC", "IMP", "None", "None", "None">>,  \* E2
      <<"PANIC", "IMP", "None", "None", "None">>, <<"PUSH", "R", "HL", "None", "None">>,  \* E4
      <<"AND", "R_D8", "A", "None", "None">>, <<"RST", "RST", "None", "None", "None">>,  \* E6
      <<"ADD", "R_D8", "SP", "None", "None">>, <<"JP", "R", "HL", "None", "None">>,  \* E8
      <<"LD", "A16_R", "None", "A", "None">>, <<"PANIC", "IMP", "None", "None", "None">>,  \* EA
      <<"PANIC", "IMP", "None", "None", "None">>, <<"PANIC", "IMP", "None", "None", "None">>,  \* EC
      <<"XOR", "R_D8", "A", "None", "None">>, <<"RST", "RST", "None", "None", "None">>,  \* EE
      <<"LDH", "R_A8", "A", "None", "None">>, <<"POP", "R", "AF", "None", "None">>,  \* F0
      <<"LDH", "R_MR", "A", "C", "None">>, <<"DI", "IMP", "None", "None", "None">>,  \* F2
      <<"PANIC", "IMP", "None", "None", "None">>, <<"PUSH", "R", "AF", "None", "None">>,  \* F4
      <<"OR", "R_D8", "A", "None", "None">>, <<"RST", "RST", "None", "None", "None">>,  \* F6
      <<"LD", "HL_SPR", "HL", "SP", "None">>, <<"LD", "R_R", "SP", "HL", "None">>,  \* F8
      <<"LD", "R_A16", "A", "None", "None">>, <<"EI", "IMP", "None", "None", "None">>,  \* FA
      <<"PANIC", "IMP", "None", "None", "None">>, <<"PANIC", "IMP", "None", "None", "None">>,  \* FC
      <<"CP", "R_D8", "A", "None", "None">>, <<"RST", "RST", "None", "None", "None">>  \* FE
    >>

MkInstruction(t) ==
    [itype |-> t[1], mode |-> t[2], reg1 |-> t[3], reg2 |-> t[4], cond |-> t[5]]

from_opcode(opcode) == MkInstruction(OpcodeTable[opcode + 1])

get_register_for_prefixed(opcode) ==
    <<"B", "C", "D", "E", "H", "L", "HL", "A">>[(opcode % 8) + 1]

from_opcode_prefixed(opcode) ==
    LET reg1 == get_register_for_prefixed(opcode)
        itype_code == opcode \div 16
        low == opcode % 16
        itype == CASE itype_code = 0 -> (IF low < 8 THEN "RLC" ELSE "RRC")
                   [] itype_code = 1 -> (IF low < 8 THEN "RL" ELSE "RR")
                   [] itype_code = 2 -> (IF low < 8 THEN "SLA" ELSE "SRA")
                   [] itype_code = 3 -> (IF low < 8 THEN "SWAP" ELSE "SRL")
                   [] itype_code \in 4..7 -> "BIT"
                   [] itype_code \in 8..11 -> "RES"
                   [] OTHER -> "SET"
    IN  [itype |-> itype, mode |-> IF reg1 = "HL" THEN "MR" ELSE "R",
         reg1 |-> reg1, reg2 |-> "None", cond |-> "None"]

InstructionDefault ==
    [itype |-> "NONE", mode |-> "IMP", reg1 |-> "None", reg2 |-> "None",
     cond |-> "None"]

-----------------------------------------------------------------------------
(* Interpreter (cpu.rs).  A machine m is the pair of the CPU record c and *)
(* the host record e it calls into.                                        *)

CPUNew ==
    [registers |-> RegisterFileNew, pc |-> 256, sp |-> 65534, flags |-> 0,
     fetched_data |-> 0, mem_dest |-> 0, dest_is_mem |-> FALSE,
     cur_opcode |-> 0, instruction |-> InstructionDefault,
     mode |-> "Running", ime |-> FALSE, ime_scheduled |-> FALSE]

Alive(m) == Running(m.e)

Tick(m) == [m EXCEPT !.e = tick_cycle(@)]

Write(m, a, v) == [m EXCEPT !.e = write_cycle(@, a, v)]

Panic(m, why) == [m EXCEPT !.e.fault = why]

\* The second half of fetch_instruction: the opcode after the 0xCB prefix.
FetchPrefixed(m, r) ==
    IF ~Running(r.e) THEN [m EXCEPT !.e = r.e]
    ELSE [m EXCEPT !.e = r.e, !.c.cur_opcode = r.v, !.c.pc = U16(@ + 1),
                   !.c.instruction = from_opcode_prefixed(r.v)]

\* The first half: m already holds the opcode byte and the advanced pc.
Decoded(m) ==
    IF ~Alive(m) THEN m
    ELSE IF m.c.cur_opcode # 203
    THEN (IF from_opcode(m.c.cur_opcode).itype = "PANIC"
          THEN Panic(m, "illegal_opcode")
          ELSE [m EXCEPT !.c.instruction = from_opcode(m.c.cur_opcode)])
    ELSE FetchPrefixed(m, read_cycle(m.e, m.c.pc))

FetchOpcode(m, r) ==
    IF ~Running(r.e) THEN [m EXCEPT !.e = r.e]
    ELSE [m EXCEPT !.e = r.e, !.c.cur_opcode = r.v, !.c.pc = U16(@ + 1)]

fetch_instruction(m) ==
    IF ~Alive(m) THEN m
    ELSE Decoded(FetchOpcode(m, read_cycle(m.e, m.c.pc)))

\* reg.is_16bit() ? read16(reg) : read8(reg) as u16
read_reg(c, reg) == IF is_16bit(reg) THEN read16(c, reg) ELSE read8(c, reg)

\* The address a register operand names: 0xFF00 | C for C, the pair else.
reg_address(c, reg) ==
    IF reg = "C" THEN Or(read8(c, reg), 65280) ELSE read16(c, reg)

\* fetched_data = read_cycle(pc); pc += 1
Fetched(m, r) == [m EXCEPT !.e = r.e, !.c.fetched_data = r.v]

FetchD8(m) == [Fetched(m, read_cycle(m.e, m.c.pc)) EXCEPT !.c.pc = U16(@ + 1)]

\* lo = read_cycle(pc); hi = read_cycle(pc + 1); pc += 2
Word(lo, hi) == [e |-> hi.e, v |-> Or(lo.v, hi.v * 256)]

FetchHi(lo, a) == Word(lo, read_cycle(lo.e, a))

FetchD16(m) == FetchHi(read_cycle(m.e, m.c.pc), U16(m.c.pc + 1))

\* fetched_data = read_cycle(address)
FetchMem(m, address) == Fetched(m, read_cycle(m.e, address))

\* The modes that start by reading a 16-bit immediate d; pc += 2.
FetchWithD16(m, d) ==
    LET c == m.c
        ins == c.instruction
        m1 == [m EXCEPT !.e = d.e, !.c.pc = U16(@ + 2)]
    IN  CASE ins.mode \in {"R_D16", "D16"} -> [m1 EXCEPT !.c.fetched_data = d.v]
          [] ins.mode \in {"A16_R", "D16_R"} ->
               [m1 EXCEPT !.c.mem_dest = d.v, !.c.dest_is_mem = TRUE,
                          !.c.fetched_data = read_reg(c, ins.reg2)]
          [] OTHER -> FetchMem(m1, d.v)

\* R_A8: the operand byte a8 was read; pc += 1, then read 0xFF00 | a8.
FetchHigh(m, a8) ==
    FetchMem([m EXCEPT !.e = a8.e, !.c.pc = U16(@ + 1)], Or(a8.v, 65280))

\* A8_R: the operand byte was read; the data is A, the target 0xFF00 | a8.
FetchHighDest(m, r) ==
    [m EXCEPT !.e = r.e, !.c.dest_is_mem = TRUE,
              !.c.fetched_data = m.c.registers["A"],
              !.c.mem_dest = Or(r.v, 65280), !.c.pc = U16(@ + 1)]

\* HLI_R, HLD_R: the target is HL, which then moves by delta.
FetchHLDest(c, delta) ==
    write16([c EXCEPT !.mem_dest = read16(c, "HL"),
                      !.fetched_data = read8(c, c.instruction.reg2),
                      !.dest_is_mem = TRUE],
            "HL", U16(read16(c, "HL") + delta))

\* R_HLI, R_HLD: read at HL, which then moves by delta.
FetchHLSource(m, delta) ==
    [FetchMem(m, read16(m.c, "HL"))
       EXCEPT !.c = write16(@, "HL", U16(read16(m.c, "HL") + delta))]

FetchByMode(m) ==
    LET c == m.c
        ins == c.instruction
        mode == ins.mode
    IN  CASE mode = "IMP" -> m
          [] mode = "R" -> [m EXCEPT !.c.fetched_data = read_reg(c, ins.reg1)]
          [] mode = "R_R" -> [m EXCEPT !.c.fetched_data = read_reg(c, ins.reg2)]
          [] mode \in {"R_D8", "D8", "HL_SPR"} -> FetchD8(m)
          [] mode \in {"R_D16", "D16", "A16_R", "D16_R", "R_A16"} ->
               FetchWithD16(m, FetchD16(m))
          [] mode = "R_HLI" -> FetchHLSource(m, 1)
          [] mode = "R_HLD" -> FetchHLSource(m, 65535)
          [] mode = "HLI_R" -> [m EXCEPT !.c = FetchHLDest(c, 1)]
          [] mode = "HLD_R" -> [m EXCEPT !.c = FetchHLDest(c, 65535)]
          [] mode = "MR_R" ->
               [m EXCEPT !.c.fetched_data = read8(c, ins.reg2),
                         !.c.mem_dest = reg_address(c, ins.reg1),
                         !.c.dest_is_mem = TRUE]
          [] mode = "R_MR" -> FetchMem(m, reg_address(c, ins.reg2))
          [] mode = "R_A8" -> FetchHigh(m, read_cycle(m.e, c.pc))
          [] mode = "A8_R" -> FetchHighDest(m, read_cycle(m.e, c.pc))
          [] mode = "MR" ->
               [FetchMem(m, read16(c, ins.reg1))
                  EXCEPT !.c.mem_dest = read16(c, ins.reg1),
                         !.c.dest_is_mem = TRUE]
          [] mode = "MR_D8" ->
               [FetchD8(m) EXCEPT !.c.mem_dest = read16(c, ins.reg1),
                                  !.c.dest_is_mem = TRUE]
          [] OTHER -> [m EXCEPT !.c.fetched_data = c.cur_opcode - 199]

fetch_data(m) ==
    IF ~Alive(m) THEN m
    ELSE FetchByMode([m EXCEPT !.c.mem_dest = 0, !.c.dest_is_mem = FALSE])

check_flags(c) ==
    CASE c.instruction.cond = "C" -> cf(c)
      [] c.instruction.cond = "NC" -> ~cf(c)
      [] c.instruction.cond = "NZ" -> ~zf(c)
      [] c.instruction.cond = "Z" -> zf(c)
      [] OTHER -> TRUE

disable_interrupts(m) == [m EXCEPT !.c.ime = FALSE]

\* A variant of enable_interrupts that sets IME at once and no latch.
enable_interrupts_Immediate(m) == [m EXCEPT !.c.ime = TRUE]

enable_interrupts(m) == [m EXCEPT !.c.ime_scheduled = TRUE]

\* Internal cycle, then the high byte at sp - 1 and the low byte at sp - 2.
\* A variant of push_value that stores the low byte first.
push_value_LsbFirst(m, value) ==
    LET msb == value \div 256
        lsb == value % 256
        sp1 == U16(m.c.sp + 65535)
        sp2 == U16(m.c.sp + 65534)
        m1 == [Tick(m) EXCEPT !.c.sp = sp1]
        m2 == [Write(m1, sp1, lsb) EXCEPT !.c.sp = sp2]
    IN  IF ~Alive(m) THEN m ELSE Write(m2, sp2, msb)

push_value(m, value) ==
    LET msb == value \div 256
        lsb == value % 256
        sp1 == U16(m.c.sp + 65535)
        sp2 == U16(m.c.sp + 65534)
        m1 == [Tick(m) EXCEPT !.c.sp = sp1]
        m2 == [Write(m1, sp1, msb) EXCEPT !.c.sp = sp2]
    IN  IF ~Alive(m) THEN m ELSE Write(m2, sp2, lsb)

\* The machine after the two reads and the word they delivered.
Popped(m, w) == [m |-> [m EXCEPT !.e = w.e, !.c.sp = U16(@ + 2)], v |-> w.v]

pop_value(m) ==
    Popped(m, FetchHi(read_cycle(m.e, m.c.sp), U16(m.c.sp + 1)))

\* The 8-bit tail shared by the handlers that write their result back.
StoreResult(m, toMem, reg1, result) ==
    IF toMem THEN Write(m, m.c.mem_dest, result)
    ELSE [m EXCEPT !.c = write8(@, reg1, result)]

decrement(m) ==
    LET c == m.c
        reg1 == c.instruction.reg1
        value == c.fetched_data % 256
        result == U8(value + 255)
        c1 == set_hf(set_nf(set_zf(c, result = 0), TRUE), And(value, 15) = 0)
    IN  IF is_16bit(reg1) /\ ~c.dest_is_mem
        THEN [m EXCEPT !.c = write16(c, reg1, U16(c.fetched_data + 65535))]
        ELSE StoreResult([m EXCEPT !.c = c1], c.dest_is_mem, reg1, result)

\* increment after its leading tick.
Incremented(m) ==
    LET c == m.c
        reg1 == c.instruction.reg1
        value == c.fetched_data % 256
        result == U8(value + 1)
        c1 == set_hf(set_nf(set_zf(c, result = 0), FALSE),
                     And(value, 15) + 1 > 15)
    IN  IF is_16bit(reg1) /\ ~c.dest_is_mem
        THEN [m EXCEPT !.c = write16(c, reg1, U16(c.fetched_data + 1))]
        ELSE StoreResult([m EXCEPT !.c = c1], c.dest_is_mem, reg1, result)

increment(m) ==
    Incremented(IF is_16bit(m.c.instruction.reg1) THEN Tick(m) ELSE m)

jump(m) ==
    IF check_flags(m.c) THEN Tick([m EXCEPT !.c.pc = m.c.fetched_data]) ELSE m

jump_rel(m) ==
    IF check_flags(m.c)
    THEN Tick([m EXCEPT !.c.pc = U16(@ + SignExt(m.c.fetched_data % 256))])
    ELSE m

load(m) ==
    LET c == m.c
        ins == c.instruction
        lo == c.fetched_data % 256
        hi == c.fetched_data \div 256
        e8 == SignExt(lo)
        result == U16(c.sp + e8)
        half_carry == And(c.sp, 15) + And(e8, 15) > 15
        carry == And(c.sp, 255) + And(e8, 255) > 255
    IN  IF c.dest_is_mem
        THEN (IF ins.reg2 = "None" THEN Write(m, c.mem_dest, lo)
              ELSE IF is_16bit(ins.reg2)
              THEN Write(Write(m, c.mem_dest, lo), U16(c.mem_dest + 1), hi)
              ELSE Write(m, c.mem_dest, lo))
        ELSE IF ins.mode = "HL_SPR"
        THEN [m EXCEPT !.c = set_hf(set_cf(set_nf(set_zf(
                                write16(c, ins.reg1, result),
                                FALSE), FALSE), carry), half_carry)]
        ELSE IF is_16bit(ins.reg1)
        THEN [m EXCEPT !.c = write16(c, ins.reg1, c.fetched_data)]
        ELSE [m EXCEPT !.c = write8(c, ins.reg1, lo)]

load_high(m) ==
    IF m.c.dest_is_mem THEN Write(m, m.c.mem_dest, m.c.fetched_data % 256)
    ELSE Tick([m EXCEPT !.c = write8(@, "A", m.c.fetched_data % 256)])

\* A variant of call that ignores the condition.
call_Unconditional(m) ==
    [push_value(m, m.c.pc) EXCEPT !.c.pc = m.c.fetched_data]

call(m) ==
    IF check_flags(m.c)
    THEN [push_value(m, m.c.pc) EXCEPT !.c.pc = m.c.fetched_data]
    ELSE m

rst(m) == [push_value(m, m.c.pc) EXCEPT !.c.pc = m.c.fetched_data]

\* A variant of the taken RET without its internal cycle.
Returned_NoInternalCycle(p) == [p.m EXCEPT !.c.pc = p.v]

\* registers.pc = pop_value(); tick_cycle()
Returned(p) == Tick([p.m EXCEPT !.c.pc = p.v])

ret(m) == IF check_flags(m.c) THEN Returned(pop_value(m)) ELSE m

PoppedInto(p, reg1) == [p.m EXCEPT !.c = write16(@, reg1, p.v)]

pop(m) == PoppedInto(pop_value(m), m.c.instruction.reg1)

push(m) == push_value(m, read16(m.c, m.c.instruction.reg1))

ccf(m) == [m EXCEPT !.c = set_cf(set_hf(set_nf(@, FALSE), FALSE), ~cf(m.c))]

scf(m) == [m EXCEPT !.c = set_cf(set_hf(set_nf(@, FALSE), FALSE), TRUE)]

cpl(m) ==
    [m EXCEPT !.c = set_hf(set_nf(write8(@, "A", Not8(m.c.registers["A"])),
                                  TRUE), TRUE)]

daa(m) ==
    LET c == m.c
        a0 == c.fetched_data % 256
        addLo == IF hf(c) \/ And(a0, 15) > 9 THEN 6 ELSE 0
        addHi == IF cf(c) \/ a0 > 153 THEN 96 ELSE 0
        subLo == IF hf(c) THEN 6 ELSE 0
        subHi == IF cf(c) THEN 96 ELSE 0
        a == IF ~nf(c) THEN U8(a0 + addLo + addHi)
             ELSE U8(a0 + 256 - (subLo + subHi))
        carry == IF ~nf(c) THEN addHi # 0 ELSE subHi # 0
    IN  [m EXCEPT !.c = set_cf(set_hf(set_zf(write8(c, "A", a), a = 0),
                                      FALSE), carry)]

\* A = result with the flags z 0 h c (ADC, ADD) or z 1 h c (SBC, SUB).
AluStore(m, result, n, half_carry, carry) ==
    [m EXCEPT !.c = write8(set_znhc(@, result = 0, n, half_carry, carry),
                           "A", result)]

adc(m) ==
    LET a == m.c.registers["A"]
        value == m.c.fetched_data % 256
        carry_in == IF cf(m.c) THEN 1 ELSE 0
    IN  AluStore(m, U8(a + value + carry_in), FALSE,
                 And(a, 15) + And(value, 15) + carry_in > 15,
                 a + value + carry_in > 255)

add(m) ==
    LET c == m.c
        reg1 == c.instruction.reg1
        a == c.registers["A"]
        value == c.fetched_data % 256
        e8 == SignExt(value)
        hl == read16(c, "HL")
    IN  IF reg1 = "SP"
        THEN [m EXCEPT !.c = write16(set_znhc(c, FALSE, FALSE,
                                         And(c.sp, 15) + And(e8, 15) > 15,
                                         And(c.sp, 255) + And(e8, 255) > 255),
                                     "SP", U16(c.sp + e8))]
        ELSE IF reg1 = "HL"
        THEN [m EXCEPT !.c = write16(set_cf(set_hf(set_nf(c, FALSE),
                                         And(hl, 4095) + And(c.fetched_data, 4095) > 4095),
                                         hl + c.fetched_data > 65535),
                                     "HL", U16(hl + c.fetched_data))]
        ELSE AluStore(m, U8(a + value), FALSE,
                      And(a, 15) + And(value, 15) > 15, a + value > 255)

cp(m) ==
    LET a == m.c.registers["A"]
        value == m.c.fetched_data % 256
    IN  [m EXCEPT !.c = set_znhc(@, U8(a + 256 - value) = 0, TRUE,
                                 And(a, 15) < And(value, 15), a < value)]

\* A variant of sbc whose half carry leaves the borrow out.
sbc_HalfCarryWithoutBorrow(m) ==
    LET a == m.c.registers["A"]
        value == m.c.fetched_data % 256
        carry_in == IF cf(m.c) THEN 1 ELSE 0
    IN  AluStore(m, U8(a + 512 - value - carry_in), TRUE,
                 And(a, 15) < And(value, 15),
                 a < value + carry_in)

sbc(m) ==
    LET a == m.c.registers["A"]
        value == m.c.fetched_data % 256
        carry_in == IF cf(m.c) THEN 1 ELSE 0
    IN  AluStore(m, U8(a + 512 - value - carry_in), TRUE,
                 And(a, 15) < And(value, 15) + carry_in,
                 a < value + carry_in)

sub(m) ==
    LET a == m.c.registers["A"]
        value == m.c.fetched_data % 256
    IN  AluStore(m, U8(a + 256 - value), TRUE,
                 And(a, 15) < And(value, 15), a < value)

and(m) ==
    LET result == And(m.c.registers["A"], m.c.fetched_data % 256)
    IN  AluStore(m, result, FALSE, TRUE, FALSE)

or(m) ==
    LET result == Or(m.c.registers["A"], m.c.fetched_data % 256)
    IN  AluStore(m, result, FALSE, FALSE, FALSE)

xor(m) ==
    LET result == Xor(m.c.registers["A"], m.c.fetched_data % 256)
    IN  AluStore(m, result, FALSE, FALSE, FALSE)

\* The four accumulator rotates: A = result, flags 0 0 0 carry.
RotateA(m, result, carry) ==
    [m EXCEPT !.c = write8(set_znhc(@, FALSE, FALSE, FALSE, carry), "A", result)]

rla(m) ==
    LET a == m.c.registers["A"]
    IN  RotateA(m, U8(a * 2) + (IF cf(m.c) THEN 1 ELSE 0), a >= 128)

rlca(m) ==
    LET a == m.c.registers["A"]
    IN  RotateA(m, U8(a * 2) + a \div 128, a >= 128)

rra(m) ==
    LET a == m.c.registers["A"]
    IN  RotateA(m, a \div 2 + (IF cf(m.c) THEN 128 ELSE 0), a % 2 = 1)

rrca(m) ==
    LET a == m.c.registers["A"]
    IN  RotateA(m, a \div 2 + 128 * (a % 2), a % 2 = 1)

\* The tail of the prefixed shifts and rotates: flags z 0 0 carry, then the
\* result goes to memory when the operand register is HL.
ShiftStore(m, result, carry) ==
    StoreResult([m EXCEPT !.c = set_znhc(@, result = 0, FALSE, FALSE, carry)],
                m.c.instruction.reg1 = "HL", m.c.instruction.reg1, result)

rlc_rl(m) ==
    LET value == m.c.fetched_data % 256
        carry == value \div 128
        result == IF m.c.instruction.itype = "RLC" THEN U8(value * 2) + carry
                  ELSE U8(value * 2) + (IF cf(m.c) THEN 1 ELSE 0)
    IN  ShiftStore(m, result, carry # 0)

rrc_rc(m) ==
    LET value == m.c.fetched_data % 256
        carry == value % 2
        result == IF m.c.instruction.itype = "RRC"
                  THEN value \div 2 + 128 * carry
                  ELSE value \div 2 + (IF cf(m.c) THEN 128 ELSE 0)
    IN  ShiftStore(m, result, carry # 0)

sla(m) ==
    LET value == m.c.fetched_data % 256
    IN  ShiftStore(m, U8(value * 2), value >= 128)

sra(m) ==
    LET value == m.c.fetched_data % 256
    IN  ShiftStore(m, value \div 2 + And(value, 128), value % 2 = 1)

swap(m) ==
    LET value == m.c.fetched_data % 256
    IN  ShiftStore(m, (value % 16) * 16 + value \div 16, FALSE)

srl(m) ==
    LET value == m.c.fetched_data % 256
    IN  ShiftStore(m, value \div 2, value % 2 = 1)

\* The bit number is encoded in bits 3-5 of the opcode.
BitNumber(c) == (c.cur_opcode \div 8) % 8

bit(m) ==
    LET value == m.c.fetched_data % 256
    IN  [m EXCEPT !.c = set_hf(set_nf(set_zf(@, Bit(value, BitNumber(m.c)) = 0),
                                      FALSE), TRUE)]

res(m) ==
    LET value == m.c.fetched_data % 256
        n == BitNumber(m.c)
        result == value - Bit(value, n) * Pow2(n)
    IN  StoreResult(m, m.c.instruction.reg1 = "HL", m.c.instruction.reg1, result)

set(m) ==
    LET value == m.c.fetched_data % 256
        n == BitNumber(m.c)
        result == value + (1 - Bit(value, n)) * Pow2(n)
    IN  StoreResult(m, m.c.instruction.reg1 = "HL", m.c.instruction.reg1, result)

execute(m) ==
    LET t == m.c.instruction.itype
    IN  IF ~Alive(m) THEN m
        ELSE
        CASE t = "NOP" -> m
          [] t = "HALT" -> [m EXCEPT !.c.mode = "Halted"]
          [] t = "STOP" -> [m EXCEPT !.c.mode = "Stopped"]
          [] t = "DI" -> disable_interrupts(m)
          [] t = "EI" -> enable_interrupts(m)
          [] t = "DEC" -> decrement(m)
          [] t = "INC" -> increment(m)
          [] t = "JP" -> jump(m)
          [] t = "JR" -> jump_rel(m)
          [] t = "LD" -> load(m)
          [] t = "LDH" -> load_high(m)
          [] t = "CALL" -> call(m)
          [] t = "RST" -> rst(m)
          [] t = "RET" -> ret(m)
          [] t = "RETI" -> ret(enable_interrupts(m))
          [] t = "POP" -> pop(m)
          [] t = "PUSH" -> push(m)
          [] t = "CCF" -> ccf(m)
          [] t = "SCF" -> scf(m)
          [] t = "CPL" -> cpl(m)
          [] t = "DAA" -> daa(m)
          [] t = "ADC" -> adc(m)
          [] t = "ADD" -> add(m)
          [] t = "CP" -> cp(m)
          [] t = "SBC" -> sbc(m)
          [] t = "SUB" -> sub(m)
          [] t = "AND" -> and(m)
          [] t = "OR" -> or(m)
          [] t = "XOR" -> xor(m)
          [] t = "RLA" -> rla(m)
          [] t = "RLCA" -> rlca(m)
          [] t = "RRA" -> rra(m)
          [] t = "RRCA" -> rrca(m)
          [] t \in {"RLC", "RL"} -> rlc_rl(m)
          [] t \in {"RRC", "RR"} -> rrc_rc(m)
          [] t = "SLA" -> sla(m)
          [] t = "SRA" -> sra(m)
          [] t = "SWAP" -> swap(m)
          [] t = "SRL" -> srl(m)
          [] t = "BIT" -> bit(m)
          [] t = "RES" -> res(m)
          [] t = "SET" -> set(m)
          [] OTHER -> Panic(m, "invalid_instruction")

\* handle_interrupts once get_interrupt returned, leaving the host e1.
Dispatch(m, e1, interrupt) ==
    IF ~Running(e1) THEN [m EXCEPT !.e = e1]
    ELSE IF pending(e1) = 0 THEN m
    ELSE Tick([push_value([m EXCEPT !.e = ack_interrupt(e1, interrupt),
                                    !.c.ime = FALSE, !.c.mode = "Running"],
                          m.c.pc)
                 EXCEPT !.c.pc = get_hadler_address(interrupt)])

handle_interrupts(m) ==
    IF ~Alive(m) THEN m
    ELSE Dispatch(m, get_interrupt(m.e), highest_priority(pending(m.e)))

\* The Halted arm of step once get_interrupt returned, leaving the host g.
HaltedBody(m, g) ==
    IF ~Running(g) THEN [m EXCEPT !.e = g]
    ELSE Tick(IF pending(g) # 0 THEN [m EXCEPT !.c.mode = "Running"] ELSE m)

\* The match on the CPU mode at the head of step.
StepBody(m) ==
    CASE m.c.mode = "Running" -> execute(fetch_data(fetch_instruction(m)))
      [] m.c.mode = "Halted" -> HaltedBody(m, get_interrupt(m.e))
      [] OTHER -> m

\* if self.ime_scheduled { self.ime = true }
Latch(m) ==
    IF ~Alive(m) THEN m
    ELSE IF m.c.ime_scheduled THEN [m EXCEPT !.c.ime = TRUE]
    ELSE m

\* The interrupt check and the EI latch at the tail of step.
StepTail(m) ==
    IF ~Alive(m) THEN m
    ELSE Latch(IF m.c.ime
               THEN [handle_interrupts(m) EXCEPT !.c.ime_scheduled = FALSE]
               ELSE m)

step(m) ==
    IF ~Alive(m) \/ m.c.mode = "Stopped" THEN m ELSE StepTail(StepBody(m))

-----------------------------------------------------------------------------
(* Cartridge images.  Cartridge::load accepts an image whose header byte  *)
(* 0x14D is the checksum of 0x134..0x14C; for an all-zero header that is  *)
(* 0xE7.  Every byte not listed is zero.                                   *)

HeaderChecksumAddr == 333

BlankRom == Put(Empty, HeaderChecksumAddr, 231)

RECURSIVE PlaceBytes(_, _, _)
PlaceBytes(rom, at, bytes) ==
    IF bytes = <<>> THEN rom
    ELSE PlaceBytes(Put(rom, at, Head(bytes)), at + 1, Tail(bytes))

\* The record of the last operation: what was called, with which inputs,
\* what it returned, how many operations ran, and the state it started from.
NoOp(c, e) ==
    [op |-> "none", addr |-> 0, val |-> 0, result |-> 0, n |-> 0,
     pre |-> [c |-> c, e |-> e]]

\* The mutex around the host (CPU::ctx) and the place the CPU thread is at
\* in step: no thread holds the mutex, the CPU thread is between two steps.
ThreadsIdle == [lock |-> "free", cpu_at |-> "idle", held |-> 0]

Record(op, addr, val, result) ==
    [op |-> op, addr |-> addr, val |-> val, result |-> result,
     n |-> last.n + 1,
     pre |-> [c |-> cpu, e |-> emu]]

-----------------------------------------------------------------------------
(* Host specification: the CpuContext entry points called one at a time.  *)

\* 0xA000 is the first byte of the cartridge-RAM window.
HostReads == {REG_DIV, REG_TIMA, REG_LY, CartRamBase}

HostWrites ==
    {<<REG_DIV, 5>>, <<REG_TAC, 5>>, <<REG_TIMA, 254>>, <<REG_DMA, 2>>,
     <<REG_IF, 225>>, <<REG_IE, 4>>, <<REG_BGP, 27>>, <<REG_SCX, 27>>,
     <<REG_LY, 85>>}

HostInit ==
    /\ emu = EmuNew(BlankRom)
    /\ cpu = CPUNew
    /\ threads = ThreadsIdle
    /\ last = NoOp(CPUNew, EmuNew(BlankRom))

HostEnabled == Running(emu) /\ last.n < MaxCycles

TickCycle ==
    /\ HostEnabled
    /\ emu' = tick_cycle(emu)
    /\ last' = Record("tick_cycle", 0, 0, 0)
    /\ UNCHANGED <<cpu, threads>>

ReadCycle(a) ==
    /\ HostEnabled
    /\ emu' = read_cycle(emu, a).e
    /\ last' = Record("read_cycle", a, 0, read_cycle(emu, a).v)
    /\ UNCHANGED <<cpu, threads>>

WriteCycle(a, v) ==
    /\ HostEnabled
    /\ emu' = write_cycle(emu, a, v)
    /\ last' = Record("write_cycle", a, v, 0)
    /\ UNCHANGED <<cpu, threads>>

GetInterrupt ==
    /\ HostEnabled
    /\ emu' = get_interrupt(emu)
    /\ last' = Record("get_interrupt", 0, 0, pending(emu))
    /\ UNCHANGED <<cpu, threads>>

AckInterrupt(f) ==
    /\ HostEnabled
    /\ emu' = ack_interrupt(emu, f)
    /\ last' = Record("ack_interrupt", 0, f, 0)
    /\ UNCHANGED <<cpu, threads>>

HostNext ==
    \/ TickCycle
    \/ \E a \in HostReads : ReadCycle(a)
    \/ \E w \in HostWrites : WriteCycle(w[1], w[2])
    \/ GetInterrupt
    \/ \E f \in {VBLANK, TIMER} : AckInterrupt(f)

SpecHost == HostInit /\ [][HostNext]_vars

-----------------------------------------------------------------------------
(* OAM-DMA specification: a transfer from a ROM page whose 160 bytes are  *)
(* all different, run to completion.                                       *)

DmaPage == 2

DmaRom ==
    [a \in {HeaderChecksumAddr} \cup (DmaPage * 256 .. DmaPage * 256 + 159) |->
        IF a = HeaderChecksumAddr THEN 231 ELSE a - DmaPage * 256 + 1]

DmaInit ==
    /\ emu = EmuNew(DmaRom)
    /\ cpu = CPUNew
    /\ threads = ThreadsIdle
    /\ last = NoOp(CPUNew, EmuNew(DmaRom))

DmaTrigger ==
    /\ Running(emu) /\ last.n < MaxDmaCycles
    /\ ~emu.dma.active
    /\ emu' = write_cycle(emu, REG_DMA, DmaPage)
    /\ last' = Record("write_cycle", REG_DMA, DmaPage, 0)
    /\ UNCHANGED <<cpu, threads>>

\* 0xA0, the first page of the cartridge-RAM window.
CartRamPage == 160

RestartPages == {DmaPage, CartRamPage}

\* The last byte index at which the running transfer is started again.
MaxRestartByte == 2

\* A write to 0xFF46 while a transfer is under way.
DmaRestart ==
    /\ Running(emu) /\ last.n < MaxDmaCycles
    /\ emu.dma.active /\ emu.dma.byte <= MaxRestartByte
    /\ \E page \in RestartPages :
          /\ emu' = write_cycle(emu, REG_DMA, page)
          /\ last' = Record("write_cycle", REG_DMA, page, 0)
    /\ UNCHANGED <<cpu, threads>>

DmaTick ==
    /\ Running(emu) /\ last.n < MaxDmaCycles
    /\ emu' = tick_cycle(emu)
    /\ last' = Record("tick_cycle", 0, 0, 0)
    /\ UNCHANGED <<cpu, threads>>

DmaNext == DmaTrigger \/ DmaRestart \/ DmaTick

SpecDma == DmaInit /\ [][DmaNext]_vars

-----------------------------------------------------------------------------
(* OAM access specification: the program starts one OAM-DMA transfer      *)
(* within its first memory cycles and reads and writes OAM through the    *)
(* bus while the transfer is pending, while it runs and after it ended.   *)

\* Memory cycles before which the transfer is started.
MaxTriggerDelay == 2

\* 0xFE00 and 0xFE9F, the first and the last byte of OAM.
OamAddrs == {65024, 65183}

OamValues == {90}

OamInit == DmaInit

OamEnabled == Running(emu) /\ last.n < MaxDmaCycles

OamTrigger ==
    /\ OamEnabled /\ last.n < MaxTriggerDelay
    /\ ~emu.dma.active
    /\ emu' = write_cycle(emu, REG_DMA, DmaPage)
    /\ last' = Record("write_cycle", REG_DMA, DmaPage, 0)
    /\ UNCHANGED <<cpu, threads>>

OamTick ==
    /\ OamEnabled
    /\ emu' = tick_cycle(emu)
    /\ last' = Record("tick_cycle", 0, 0, 0)
    /\ UNCHANGED <<cpu, threads>>

OamRead(a) ==
    /\ OamEnabled
    /\ emu' = read_cycle(emu, a).e
    /\ last' = Record("read_cycle", a, 0, read_cycle(emu, a).v)
    /\ UNCHANGED <<cpu, threads>>

OamWrite(a, v) ==
    /\ OamEnabled
    /\ emu' = write_cycle(emu, a, v)
    /\ last' = Record("write_cycle", a, v, 0)
    /\ UNCHANGED <<cpu, threads>>

OamNext ==
    \/ OamTrigger
    \/ OamTick
    \/ \E a \in OamAddrs : OamRead(a)
    \/ \E a \in OamAddrs, v \in OamValues : OamWrite(a, v)

SpecOam == OamInit /\ [][OamNext]_vars

-----------------------------------------------------------------------------
(* Register-file specification: the accessors of RegisterFile applied to  *)
(* the power-on register file, each register written at its own width.    *)

\* Accessor calls of a run.
MaxRegOps == 2

Reg16 == {"AF", "BC", "DE", "HL", "SP", "PC"}

\* 0x00, 0x0F, 0xB5, 0xFF
RegBytes == {0, 15, 181, 255}

\* 0x00FF, 0x1234, 0xFFFF
RegWords == {255, 4660, 65535}

RegInit == HostInit

RegEnabled == last.n < MaxRegOps

RegWrite8(reg, v) ==
    /\ RegEnabled
    /\ cpu' = write8(cpu, reg, v)
    /\ last' = Record("write8", reg, v, 0)
    /\ UNCHANGED <<emu, threads>>

RegWrite16(reg, v) ==
    /\ RegEnabled
    /\ cpu' = write16(cpu, reg, v)
    /\ last' = Record("write16", reg, v, 0)
    /\ UNCHANGED <<emu, threads>>

RegSetFlag(value) ==
    /\ RegEnabled
    /\ \/ cpu' = set_zf(cpu, value)
       \/ cpu' = set_nf(cpu, value)
       \/ cpu' = set_hf(cpu, value)
       \/ cpu' = set_cf(cpu, value)
    /\ last' = Record("set_flag", "F", 0, 0)
    /\ UNCHANGED <<emu, threads>>

RegNext ==
    \/ \E reg \in Reg8, v \in RegBytes : RegWrite8(reg, v)
    \/ \E reg \in Reg16, v \in RegWords : RegWrite16(reg, v)
    \/ \E value \in BOOLEAN : RegSetFlag(value)

SpecRegs == RegInit /\ [][RegNext]_vars

-----------------------------------------------------------------------------
(* RAM access specification: writes and reads of work RAM, high RAM and   *)
(* VRAM through the bus, with ticks and an OAM-DMA transfer in between.   *)

\* Memory cycles of a run.
MaxRamOps == 3

\* The first and the last byte of work RAM (0xC000, 0xDFFF), of high RAM
\* (0xFF80, 0xFFFE) and of VRAM (0x8000, 0x9FFF).
RamAddrs == {49152, 57343, 65408, 65534, 32768, 40959}

\* 0xA5, 0x5A
RamValues == {165, 90}

\* The transfer copies from work RAM, page 0xC0.
RamDmaPage == 192

RamInit == HostInit

RamEnabled == Running(emu) /\ last.n < MaxRamOps

RamTick ==
    /\ RamEnabled
    /\ emu' = tick_cycle(emu)
    /\ last' = Record("tick_cycle", 0, 0, 0)
    /\ UNCHANGED <<cpu, threads>>

RamTrigger ==
    /\ RamEnabled
    /\ emu' = write_cycle(emu, REG_DMA, RamDmaPage)
    /\ last' = Record("write_cycle", REG_DMA, RamDmaPage, 0)
    /\ UNCHANGED <<cpu, threads>>

RamWrite(a, v) ==
    /\ RamEnabled
    /\ emu' = write_cycle(emu, a, v)
    /\ last' = Record("write_cycle", a, v, 0)
    /\ UNCHANGED <<cpu, threads>>

RamRead(a) ==
    /\ RamEnabled
    /\ emu' = read_cycle(emu, a).e
    /\ last' = Record("read_cycle", a, 0, read_cycle(emu, a).v)
    /\ UNCHANGED <<cpu, threads>>

RamNext ==
    \/ RamTick
    \/ RamTrigger
    \/ \E a \in RamAddrs, v \in RamValues : RamWrite(a, v)
    \/ \E a \in RamAddrs : RamRead(a)

SpecRam == RamInit /\ [][RamNext]_vars

-----------------------------------------------------------------------------
(* CPU specification: a program at the entry point 0x0100, run by step.   *)

EntryPoint == 256

\* Operand bytes following the opcode under test: 0x0150 / +0x50 and
\* 0xC085 / -0x7B.
Operands == {<<80, 1>>, <<133, 192>>}

\* Leading instructions that set up the flags: nothing, SCF, XOR A.
FlagPrefixes == {<<>>, <<55>>, <<175>>}

\* Every unprefixed opcode with its operand bytes, every prefixed opcode.
OpcodeBodies ==
    {<<op>> \o d : op \in (0..255) \ {203}, d \in Operands}
        \cup {<<203, op>> : op \in 0..255}

\* LD A,n; LDH (0xFF),A; LDH (0x0F),A: IE and IF written through the bus.
IrqSetup(ie, ifr) == <<62, ie, 224, 255, 62, ifr, 224, 15>>

IrqPrefixes ==
    {IrqSetup(4, 4), IrqSetup(4, 4) \o <<251>>, IrqSetup(31, 5) \o <<251>>,
     IrqSetup(255, 255) \o <<251>>, <<251>>}

\* NOP, DI, EI, HALT, STOP, RETI and the pairs EI;DI and DI;EI.
IrqBodies ==
    {<<0>>, <<243>>, <<251>>, <<118>>, <<16>>, <<217>>, <<251, 243>>,
     <<243, 251>>}

\* Nothing, or LD BC,0x1234; then PUSH rr; POP qq for all pairs rr, qq.
StackPrefixes == {<<>>, <<1, 52, 18>>}

StackBodies == {<<rr, qq>> : rr \in {197, 213, 229, 245},
                             qq \in {193, 209, 225, 241}}

\* LD A,5; LDH (0x07),A; LDH (0xFF),A; LD A,0xFE; LDH (0x05),A; HALT: the
\* timer enabled at its fastest rate, TIMER and VBLANK enabled in IE, TIMA
\* one count from its reload, and the CPU halted with IME clear.
HaltProgram == <<62, 5, 224, 7, 224, 255, 62, 254, 224, 5, 118>>

Programs ==
    {p \o b : p \in FlagPrefixes, b \in OpcodeBodies}
        \cup {p \o b : p \in IrqPrefixes, b \in IrqBodies}
        \cup {p \o b : p \in StackPrefixes, b \in StackBodies}
        \cup {HaltProgram}

ProgramRom(prog) == PlaceBytes(BlankRom, EntryPoint, prog)

\* JP 0x0150 at the entry point, and at 0x0150: CALL 0x0154; NOP; RET.
CallRetRom ==
    PlaceBytes(ProgramRom(<<195, 80, 1>>), 336, <<205, 84, 1, 0, 201>>)

Roms == {ProgramRom(prog) : prog \in Programs} \cup {CallRetRom}

Init ==
    \E rom \in Roms :
        /\ emu = EmuNew(rom)
        /\ cpu = CPUNew
        /\ threads = ThreadsIdle
        /\ last = NoOp(CPUNew, EmuNew(rom))

\* The machine r that step leaves becomes the next state.
Stepped(r) ==
    /\ cpu' = r.c
    /\ emu' = r.e
    /\ last' = Record("step", cpu.pc, 0, 0)
    /\ UNCHANGED threads

Step ==
    /\ Running(emu) /\ last.n < MaxSteps
    /\ Stepped(step([c |-> cpu, e |-> emu]))

Next == Step

Spec == Init /\ [][Next]_vars

-----------------------------------------------------------------------------
(* Two-thread specification: the interpreter on one thread, a front-end   *)
(* on another, sharing the host behind the mutex of CPU::ctx.  CPU::step  *)
(* never takes the mutex itself: fetch_instruction holds one guard for    *)
(* its body, fetch_data one guard for the reads of its addressing mode,   *)
(* push_value one guard for its three cycles, and every other memory      *)
(* cycle of execute and handle_interrupts locks for its own statement.    *)
(* A part of step is what runs from one point where the mutex is free to  *)
(* the next: at most one guard and the CPU-local code after it.  A part   *)
(* that locks is enabled while the mutex is free; a part without a guard  *)
(* runs whoever holds it.  The CPU thread is the loop of Emulator::run:    *)
(* step, then debug_update on the host, until step returns false.  The    *)
(* front-end locks, polls the joypad register and unlocks.                *)

\* Actions of a run, both threads together.
MaxThreadOps == 44

\* LD A,0x05; LD BC,0x1234; PUSH BC.   PUSH BC; POP AF.
\* LD HL,0xC000; INC (HL).   CALL 0x0104; NOP; RET.
\* IE = IF = 4 through the bus; EI; NOP.   HALT.
\* IE = IF = 4 through the bus; HALT; NOP.
\* LD A,0x41; LDH (0x01),A; LD A,0x81; LDH (0x02),A; NOP.
ThreadPrograms ==
    {<<62, 5, 1, 52, 18, 197>>, <<197, 241>>, <<33, 0, 192, 52>>,
     <<205, 4, 1, 0, 201>>, IrqSetup(4, 4) \o <<251, 0>>, <<118, 0>>,
     IrqSetup(4, 4) \o <<118, 0>>,
     <<62, 65, 224, 1, 62, 129, 224, 2, 0>>}

ThreadsInit ==
    \E prog \in ThreadPrograms :
        /\ emu = EmuNew(ProgramRom(prog))
        /\ cpu = CPUNew
        /\ last = NoOp(CPUNew, EmuNew(ProgramRom(prog)))
        /\ threads = ThreadsIdle

\* Where the CPU thread is after a part: the machine, the part that runs
\* next and the local variable it carries over (lo of pop_value, interrupt
\* of handle_interrupts).
CpuAt(m, at, held) == [m |-> m, at |-> at, held |-> held]

\* let lo = read_cycle(sp); sp += 1
PopLo(m, r) == CpuAt([m EXCEPT !.e = r.e, !.c.sp = U16(@ + 1)], "pop_hi", r.v)

\* let hi = read_cycle(sp); sp += 1; (hi << 8) | lo
PopHi(m, lo, r) ==
    [m |-> [m EXCEPT !.e = r.e, !.c.sp = U16(@ + 1)], v |-> Or(lo, r.v * 256)]

\* execute calls pop_value: POP, and RET or RETI whose condition holds.
PopsValue(c) ==
    \/ c.instruction.itype = "POP"
    \/ c.instruction.itype \in {"RET", "RETI"} /\ check_flags(c)

\* increment ticks under one guard and stores under another: INC (HL).
TicksThenStores(c) ==
    /\ c.instruction.itype = "INC"
    /\ is_16bit(c.instruction.reg1)
    /\ c.dest_is_mem

\* execute up to the point where its first guard is released; all of it for
\* the instructions that lock once or not at all.
ExecutePart(m) ==
    IF PopsValue(m.c)
    THEN (IF m.c.instruction.itype = "RETI"
          THEN PopLo(enable_interrupts(m), read_cycle(m.e, m.c.sp))
          ELSE PopLo(m, read_cycle(m.e, m.c.sp)))
    ELSE IF TicksThenStores(m.c) THEN CpuAt(Tick(m), "inc_store", 0)
    ELSE CpuAt(execute(m), "tail", 0)

\* The second guard of pop_value and what its caller does with the word.
PoppedPart(m, p) ==
    IF m.c.instruction.itype = "POP"
    THEN CpuAt(PoppedInto(p, m.c.instruction.reg1), "tail", 0)
    ELSE CpuAt([p.m EXCEPT !.c.pc = p.v], "ret_tick", 0)

PopHiPart(m, lo) == PoppedPart(m, PopHi(m, lo, read_cycle(m.e, m.c.sp)))

\* self.ctx.lock().unwrap().tick_cycle() at the end of ret.
RetTickPart(m) == CpuAt(Tick(m), "tail", 0)

\* The flags and the write_cycle of increment after its tick.
IncStorePart(m) == CpuAt(Incremented(m), "tail", 0)

\* handle_interrupts up to the release of the guard of get_interrupt, g
\* being the host it leaves; with nothing pending the rest of step as well.
InterruptPart(m, g) ==
    IF ~Running(g) THEN CpuAt([m EXCEPT !.e = g], "debug_update", 0)
    ELSE IF pending(g) = 0
    THEN CpuAt(Latch([m EXCEPT !.c.ime_scheduled = FALSE]), "debug_update", 0)
    ELSE CpuAt([m EXCEPT !.c.ime = FALSE, !.c.mode = "Running"],
               "ack_interrupt", highest_priority(pending(g)))

\* The tail of step: all of it while ime is clear.
TailPart(m) ==
    IF m.c.ime THEN InterruptPart(m, get_interrupt(m.e))
    ELSE CpuAt(Latch(m), "debug_update", 0)

\* self.ctx.lock().unwrap().ack_interrupt(&interrupt)
AckPart(m, interrupt) ==
    CpuAt([m EXCEPT !.e = ack_interrupt(@, interrupt)], "push_pc", interrupt)

\* self.push_value(self.registers.pc); pc = get_hadler_address(interrupt)
PushPcPart(m, interrupt) ==
    CpuAt([push_value(m, m.c.pc) EXCEPT !.c.pc = get_hadler_address(interrupt)],
          "dispatch_tick", 0)

\* The last tick of handle_interrupts and the rest of step.
DispatchTickPart(m) ==
    CpuAt(Latch([Tick(m) EXCEPT !.c.ime_scheduled = FALSE]), "debug_update", 0)

\* The head of step: the opcode fetch in mode Running; in mode Halted the
\* whole arm under one guard, get_interrupt and tick_cycle.
HeadPart(m) ==
    IF m.c.mode = "Halted"
    THEN CpuAt(HaltedBody(m, get_interrupt(m.e)), "tail", 0)
    ELSE CpuAt(fetch_instruction(m), "fetch_data", 0)

\* emu.borrow_mut().debug_update() in the loop of Emulator::run.
DebugUpdatePart(m) == CpuAt([m EXCEPT !.e = debug_update(@)], "idle", 0)

\* The part of the loop of Emulator::run that runs at `at`.
PartAt(m, at, held) ==
    CASE at = "idle" -> HeadPart(m)
      [] at = "fetch_data" -> CpuAt(fetch_data(m), "execute", 0)
      [] at = "execute" -> ExecutePart(m)
      [] at = "pop_hi" -> PopHiPart(m, held)
      [] at = "ret_tick" -> RetTickPart(m)
      [] at = "inc_store" -> IncStorePart(m)
      [] at = "tail" -> TailPart(m)
      [] at = "ack_interrupt" -> AckPart(m, held)
      [] at = "push_pc" -> PushPcPart(m, held)
      [] at = "debug_update" -> DebugUpdatePart(m)
      [] OTHER -> DispatchTickPart(m)

\* The part at `at` takes the mutex: fetch_data and execute when they run a
\* memory cycle, the tail when ime is set, every other part always.
Locks(m, at, held) ==
    CASE at \in {"fetch_data", "execute"} -> PartAt(m, at, held).m.e # m.e
      [] at = "tail" -> m.c.ime
      [] OTHER -> TRUE

\* The CPU thread runs the part of step that is at `at`.
CpuPart(at, op) ==
    /\ Running(emu) /\ last.n < MaxThreadOps
    /\ threads.cpu_at = at
    /\ Locks([c |-> cpu, e |-> emu], at, threads.held) => threads.lock = "free"
    /\ cpu' = PartAt([c |-> cpu, e |-> emu], at, threads.held).m.c
    /\ emu' = PartAt([c |-> cpu, e |-> emu], at, threads.held).m.e
    /\ last' = Record(op, cpu.pc, 0, 0)
    /\ threads' =
          [threads EXCEPT
             !.cpu_at = PartAt([c |-> cpu, e |-> emu], at, threads.held).at,
             !.held = PartAt([c |-> cpu, e |-> emu], at, threads.held).held]

CpuFetchInstruction ==
    /\ cpu.mode = "Running"
    /\ CpuPart("idle", "fetch_instruction")

\* The Halted arm of step.  In mode Stopped step returns false and the loop
\* of Emulator::run ends: no part runs.
CpuHalted ==
    /\ cpu.mode = "Halted"
    /\ CpuPart("idle", "halted")

CpuFetchData == CpuPart("fetch_data", "fetch_data")

CpuExecute == CpuPart("execute", "execute")

CpuPopHi == CpuPart("pop_hi", "pop_value")

CpuRetTick == CpuPart("ret_tick", "ret")

CpuIncStore == CpuPart("inc_store", "increment")

CpuStepTail == CpuPart("tail", "step")

CpuAckInterrupt == CpuPart("ack_interrupt", "ack_interrupt")

CpuPushPc == CpuPart("push_pc", "push_value")

CpuDispatchTick == CpuPart("dispatch_tick", "handle_interrupts")

CpuDebugUpdate == CpuPart("debug_update", "debug_update")

FrontendLock ==
    /\ Running(emu) /\ last.n < MaxThreadOps
    /\ threads.lock = "free"
    /\ threads' = [threads EXCEPT !.lock = "frontend"]
    /\ last' = Record("lock", 0, 0, 0)
    /\ UNCHANGED <<emu, cpu>>

FrontendPeek ==
    /\ Running(emu) /\ last.n < MaxThreadOps
    /\ threads.lock = "frontend"
    /\ last' = Record("peek", REG_P1, 0, peek(emu, REG_P1))
    /\ UNCHANGED <<emu, cpu, threads>>

FrontendUnlock ==
    /\ Running(emu) /\ last.n < MaxThreadOps
    /\ threads.lock = "frontend"
    /\ threads' = [threads EXCEPT !.lock = "free"]
    /\ last' = Record("unlock", 0, 0, 0)
    /\ UNCHANGED <<emu, cpu>>

ThreadsNext ==
    \/ CpuFetchInstruction
    \/ CpuHalted
    \/ CpuFetchData
    \/ CpuExecute
    \/ CpuPopHi
    \/ CpuRetTick
    \/ CpuIncStore
    \/ CpuStepTail
    \/ CpuAckInterrupt
    \/ CpuPushPc
    \/ CpuDispatchTick
    \/ CpuDebugUpdate
    \/ FrontendLock
    \/ FrontendPeek
    \/ FrontendUnlock

SpecThreads == ThreadsInit /\ [][ThreadsNext]_vars

-----------------------------------------------------------------------------
(* PPU specification: PPU::tick called dot after dot on a PPU set up       *)
(* through its public writers (lcd_write, oam_write, vram_write).          *)

MaxDots == 136400

\* The writes of a set-up, applied in order.
RECURSIVE Configure(_, _)
Configure(e, writes) ==
    IF writes = <<>> THEN e
    ELSE LET w == Head(writes)
         IN  Configure(
                CASE w[1] = "lcd" -> lcd_write(e, w[2], w[3])
                  [] w[1] = "oam" -> oam_write(e, w[2], w[3])
                  [] w[1] = "vram" -> vram_write(e, w[2], w[3]),
                Tail(writes))

\* Set-ups: power-on; every STAT interrupt selected, LYC and a fine scroll,
\* with two sprites on lines 0..7; 8x16 sprites, one of them partly off the
\* left edge; a window low on the screen; large scrolls; the HBlank
\* interrupt selected with STAT written whole.
PpuSetups ==
    {<<>>,
     <<(<<"lcd", REG_STAT, 122>>), (<<"lcd", REG_LYC, 10>>),
       (<<"lcd", REG_SCX, 5>>), (<<"lcd", REG_SCY, 3>>),
       (<<"lcd", REG_LCDC, 147>>),
       (<<"oam", 65024, 16>>), (<<"oam", 65025, 20>>),
       (<<"oam", 65028, 16>>), (<<"oam", 65029, 12>>),
       (<<"vram", 32768, 240>>), (<<"vram", 32769, 60>>)>>,
     <<(<<"lcd", REG_LCDC, 151>>),
       (<<"oam", 65024, 20>>), (<<"oam", 65025, 4>>),
       (<<"oam", 65027, 96>>),
       (<<"oam", 65032, 16>>), (<<"oam", 65033, 30>>),
       (<<"vram", 32768, 255>>)>>,
     <<(<<"lcd", REG_LCDC, 241>>), (<<"lcd", REG_WX, 7>>),
       (<<"lcd", REG_WY, 120>>)>>,
     <<(<<"lcd", REG_SCX, 100>>), (<<"lcd", REG_SCY, 200>>)>>,
     <<(<<"lcd", REG_STAT, 8>>)>>,
     <<(<<"lcd", REG_LCDC, 17>>), (<<"lcd", REG_SCX, 7>>)>>,
     <<(<<"lcd", REG_STAT, 18>>)>>,
     <<(<<"lcd", REG_STAT, 66>>), (<<"lcd", REG_LYC, 144>>)>>}

PpuInit ==
    \E writes \in PpuSetups, checks \in BOOLEAN :
        LET e == Configure([EmuNew(BlankRom) EXCEPT
                               !.overflow_checks = checks], writes)
        IN  /\ emu = e
            /\ cpu = CPUNew
            /\ threads = ThreadsIdle
            /\ last = NoOp(CPUNew, e)

PpuTick ==
    /\ Running(emu)
    /\ last.n < MaxDots
    /\ emu' = PPU_tick(emu)
    /\ last' = Record("ppu_tick", 0, 0, 0)
    /\ UNCHANGED <<cpu, threads>>

PpuNext == PpuTick

SpecPpu == PpuInit /\ [][PpuNext]_vars

-----------------------------------------------------------------------------
(* Arithmetic specification: LD A,a for every byte a; SCF or nothing; then *)
(* one of ADD, ADC, SUB, SBC, CP with the immediate operand v.             *)

MaxAluSteps == 3

\* Operand bytes around the nibble and byte boundaries.
AluBytes == {0, 1, 15, 16, 17, 127, 128, 129, 143, 240, 241, 254, 255}

\* ADD A,d8; ADC A,d8; SUB d8; SBC A,d8; CP d8.
AluOpcodes == {198, 206, 214, 222, 254}

AluPrograms ==
    {<<62, a>> \o carry \o <<op, v>> :
        a \in 0..255, v \in AluBytes, op \in AluOpcodes,
        carry \in {<<>>, <<55>>}}

AluInit ==
    \E prog \in AluPrograms :
        /\ emu = EmuNew(ProgramRom(prog))
        /\ cpu = CPUNew
        /\ threads = ThreadsIdle
        /\ last = NoOp(CPUNew, EmuNew(ProgramRom(prog)))

AluStep ==
    /\ Running(emu) /\ last.n < MaxAluSteps
    /\ Stepped(step([c |-> cpu, e |-> emu]))

AluNext == AluStep

SpecAlu == AluInit /\ [][AluNext]_vars

-----------------------------------------------------------------------------
(* Prefixed-decoder specification: the two bytes 0xCB, o at the entry       *)
(* point, for every byte o, and one step that fetches and decodes them.     *)

MaxDecodeSteps == 1

PrefixedPrograms == {<<203, o>> : o \in 0..255}

DecodeInit ==
    \E prog \in PrefixedPrograms :
        /\ emu = EmuNew(ProgramRom(prog))
        /\ cpu = CPUNew
        /\ threads = ThreadsIdle
        /\ last = NoOp(CPUNew, EmuNew(ProgramRom(prog)))

DecodeStep ==
    /\ Running(emu) /\ last.n < MaxDecodeSteps
    /\ Stepped(step([c |-> cpu, e |-> emu]))

DecodeNext == DecodeStep

SpecDecode == DecodeInit /\ [][DecodeNext]_vars

-----------------------------------------------------------------------------
(* Timer specification: Timer::tick called T-cycle after T-cycle on a      *)
(* timer whose TAC, TIMA and TMA were written first.                        *)

MaxTimerTicks == 1030

TimerTacs == 0..7

TimerTimas == {0, 254, 255}

TimerTmas == {0, 254}

TimerInit ==
    \E tac \in TimerTacs, tima \in TimerTimas, tma \in TimerTmas :
        LET e == Timer_write(Timer_write(Timer_write(EmuNew(BlankRom),
                     REG_TAC, tac), REG_TIMA, tima), REG_TMA, tma)
        IN  /\ emu = e
            /\ cpu = CPUNew
            /\ threads = ThreadsIdle
            /\ last = NoOp(CPUNew, e)

TimerTick ==
    /\ Running(emu)
    /\ last.n < MaxTimerTicks
    /\ emu' = Timer_tick(emu)
    /\ last' = Record("timer_tick", 0, 0, 0)
    /\ UNCHANGED <<cpu, threads>>

TimerNext == TimerTick

SpecTimer == TimerInit /\ [][TimerNext]_vars

-----------------------------------------------------------------------------
(* LCD register specification: PPU::tick dot after dot from power-on, with *)
(* PPU::lcd_write called between dots.                                     *)

MaxLcdSteps == 500

\* The steps before which a register is written: at power-on, during the
\* OAM scan, during pixel transfer and during HBlank of line 0.
WriteSteps == {0, 40, 120, 350}

\* STAT with the VBlank mode, with the OAM mode and every interrupt
\* select, and with all bits set; a fine scroll.
LcdWrites ==
    {<<REG_STAT, 1>>, <<REG_STAT, 122>>, <<REG_STAT, 255>>, <<REG_SCX, 3>>}

LcdInit ==
    \E checks \in BOOLEAN :
        LET e == [EmuNew(BlankRom) EXCEPT !.overflow_checks = checks]
        IN  /\ emu = e
            /\ cpu = CPUNew
            /\ threads = ThreadsIdle
            /\ last = NoOp(CPUNew, e)

LcdTick ==
    /\ Running(emu)
    /\ last.n < MaxLcdSteps
    /\ emu' = PPU_tick(emu)
    /\ last' = Record("ppu_tick", 0, 0, 0)
    /\ UNCHANGED <<cpu, threads>>

LcdWrite ==
    /\ Running(emu)
    /\ last.n \in WriteSteps
    /\ \E w \in LcdWrites :
          /\ emu' = lcd_write(emu, w[1], w[2])
          /\ last' = Record("lcd_write", w[1], w[2], 0)
    /\ UNCHANGED <<cpu, threads>>

LcdNext == LcdTick \/ LcdWrite

SpecLcd == LcdInit /\ [][LcdNext]_vars

-----------------------------------------------------------------------------
(* The same with IF cleared by the program and one register written       *)
(* during VBlank of the first frame.                                       *)

MaxFrameSteps == 66300

\* A step within line 144, the first line of VBlank.
VblankWriteStep == 65700

FrameTick ==
    /\ Running(emu)
    /\ last.n < MaxFrameSteps
    /\ emu' = PPU_tick(emu)
    /\ last' = Record("ppu_tick", 0, 0, 0)
    /\ UNCHANGED <<cpu, threads>>

\* The program clears IF, as its VBlank handler does.
FrameClear ==
    /\ Running(emu)
    /\ last.n = VblankWriteStep
    /\ emu' = write_cycle(emu, REG_IF, 0)
    /\ last' = Record("write_cycle", REG_IF, 0, 0)
    /\ UNCHANGED <<cpu, threads>>

FrameWrite ==
    /\ Running(emu)
    /\ last.n \in {VblankWriteStep, VblankWriteStep + 1}
    /\ \E w \in LcdWrites :
          /\ emu' = lcd_write(emu, w[1], w[2])
          /\ last' = Record("lcd_write", w[1], w[2], 0)
    /\ UNCHANGED <<cpu, threads>>

FrameNext == FrameTick \/ FrameClear \/ FrameWrite

SpecLcdFrame == LcdInit /\ [][FrameNext]_vars

-----------------------------------------------------------------------------
(* Reference data: the canonical SM83 timing and encoding tables.          *)

\* M-cycles of each unprefixed opcode when a conditional is not taken
\* (0 for the opcodes that do not exist and for the 0xCB prefix).
CanonicalCycles == <<
    1, 3, 2, 2, 1, 1, 2, 1, 5, 2, 2, 2, 1, 1, 2, 1,  \* 0x
    1, 3, 2, 2, 1, 1, 2, 1, 3, 2, 2, 2, 1, 1, 2, 1,  \* 1x
    2, 3, 2, 2, 1, 1, 2, 1, 2, 2, 2, 2, 1, 1, 2, 1,  \* 2x
    2, 3, 2, 2, 3, 3, 3, 1, 2, 2, 2, 2, 1, 1, 2, 1,  \* 3x
    1, 1, 1, 1, 1, 1, 2, 1, 1, 1, 1, 1, 1, 1, 2, 1,  \* 4x
    1, 1, 1, 1, 1, 1, 2, 1, 1, 1, 1, 1, 1, 1, 2, 1,  \* 5x
    1, 1, 1, 1, 1, 1, 2, 1, 1, 1, 1, 1, 1, 1, 2, 1,  \* 6x
    2, 2, 2, 2, 2, 2, 1, 2, 1, 1, 1, 1, 1, 1, 2, 1,  \* 7x
    1, 1, 1, 1, 1, 1, 2, 1, 1, 1, 1, 1, 1, 1, 2, 1,  \* 8x
    1, 1, 1, 1, 1, 1, 2, 1, 1, 1, 1, 1, 1, 1, 2, 1,  \* 9x
    1, 1, 1, 1, 1, 1, 2, 1, 1, 1, 1, 1, 1, 1, 2, 1,  \* Ax
    1, 1, 1, 1, 1, 1, 2, 1, 1, 1, 1, 1, 1, 1, 2, 1,  \* Bx
    2, 3, 3, 4, 3, 4, 2, 4, 2, 4, 3, 0, 3, 6, 2, 4,  \* Cx
    2, 3, 3, 0, 3, 4, 2, 4, 2, 4, 3, 0, 3, 0, 2, 4,  \* Dx
    3, 3, 2, 0, 0, 4, 2, 4, 4, 1, 4, 0, 0, 0, 2, 4,  \* Ex
    3, 3, 2, 1, 0, 4, 2, 4, 3, 2, 4, 1, 0, 0, 2, 4  \* Fx
    >>

\* Additional M-cycles of a conditional JR, JP, CALL or RET that is taken.
CanonicalTakenExtra(t) ==
    CASE t \in {"JR", "JP"} -> 1
      [] t \in {"CALL", "RET"} -> 3
      [] OTHER -> 0

\* M-cycles of a prefixed opcode: 2 on a register; on (HL) 3 for BIT, else 4.
CanonicalPrefixedCycles(op) ==
    IF op % 8 # 6 THEN 2 ELSE IF op \in 64..127 THEN 3 ELSE 4

\* Bytes of each unprefixed opcode (the 0xCB prefix with its opcode: 2).
CanonicalLength == <<
    1, 3, 1, 1, 1, 1, 2, 1, 3, 1, 1, 1, 1, 1, 2, 1,  \* 0x
    2, 3, 1, 1, 1, 1, 2, 1, 2, 1, 1, 1, 1, 1, 2, 1,  \* 1x
    2, 3, 1, 1, 1, 1, 2, 1, 2, 1, 1, 1, 1, 1, 2, 1,  \* 2x
    2, 3, 1, 1, 1, 1, 2, 1, 2, 1, 1, 1, 1, 1, 2, 1,  \* 3x
    1, 1, 1, 1, 1, 1, 1, 1, 1, 1, 1, 1, 1, 1, 1, 1,  \* 4x
    1, 1, 1, 1, 1, 1, 1, 1, 1, 1, 1, 1, 1, 1, 1, 1,  \* 5x
    1, 1, 1, 1, 1, 1, 1, 1, 1, 1, 1, 1, 1, 1, 1, 1,  \* 6x
    1, 1, 1, 1, 1, 1, 1, 1, 1, 1, 1, 1, 1, 1, 1, 1,  \* 7x
    1, 1, 1, 1, 1, 1, 1, 1, 1, 1, 1, 1, 1, 1, 1, 1,  \* 8x
    1, 1, 1, 1, 1, 1, 1, 1, 1, 1, 1, 1, 1, 1, 1, 1,  \* 9x
    1, 1, 1, 1, 1, 1, 1, 1, 1, 1, 1, 1, 1, 1, 1, 1,  \* Ax
    1, 1, 1, 1, 1, 1, 1, 1, 1, 1, 1, 1, 1, 1, 1, 1,  \* Bx
    1, 1, 3, 3, 3, 1, 2, 1, 1, 1, 3, 2, 3, 3, 2, 1,  \* Cx
    1, 1, 3, 1, 3, 1, 2, 1, 1, 1, 3, 1, 3, 1, 2, 1,  \* Dx
    2, 1, 1, 1, 1, 1, 2, 1, 2, 1, 3, 1, 1, 1, 2, 1,  \* Ex
    2, 1, 1, 1, 1, 1, 2, 1, 2, 1, 3, 1, 1, 1, 2, 1  \* Fx
    >>

-----------------------------------------------------------------------------
(* Observations on the last operation. *)

MemoryCycleOps == {"tick_cycle", "read_cycle", "write_cycle"}

\* The last operation was a memory cycle that ran to its end.
MemoryCycleRan == last.op \in MemoryCycleOps /\ Running(emu)

\* The last operation was a step that fetched and executed an instruction
\* without a panic.
InstructionRan ==
    /\ last.op = "step"
    /\ last.pre.c.mode = "Running"
    /\ Running(emu)

\* The bytes at the pc the last step started from.
OpcodeRun == peek(last.pre.e, last.pre.c.pc)

SecondByteRun == peek(last.pre.e, U16(last.pre.c.pc + 1))

\* The last step executed the unprefixed opcode op.
Executed(op) == InstructionRan /\ OpcodeRun = op

\* The condition of the conditional opcode run held when it was fetched.
BranchTaken ==
    check_flags([last.pre.c EXCEPT !.instruction = from_opcode(OpcodeRun)])

CyclesRun == (emu.ticks - last.pre.e.ticks) \div 4

\* The machine of the last step between the match on the mode and the
\* interrupt check.
Mid == StepBody(last.pre)

\* The index of the single bit set in f.
BitIndex(f) == CHOOSE b \in 0..7 : Pow2(b) = f

-----------------------------------------------------------------------------
(* C1 *)

\* C1: every tick_cycle, read_cycle and write_cycle advances the host by one
\* M-cycle: ticks grows by 4, the timer by 4 T-cycles (a write to DIV aside),
\* and the PPU by 4 dots, so that the PPU has had 4 dots per memory cycle.
C1_MemoryCycleAdvancesPpu ==
    MemoryCycleRan =>
        /\ emu.ticks = last.pre.e.ticks + 4
        /\ (last.op = "write_cycle" /\ last.addr = REG_DIV)
              \/ emu.timer.div = U16(last.pre.e.timer.div + 4)
        /\ emu.ppu.line_ticks = last.pre.e.ppu.line_ticks + 4
        /\ emu.ppu.line_ticks = emu.ticks

-----------------------------------------------------------------------------
(* C2 *)

\* C2: the bytes the bus holds at 0xFFFF and 0xFF0F always equal the IE and
\* IF of the interrupt line, so get_interrupt never panics with "Interrupt
\* registers are not synchronized."
C2_InterruptRegistersSynchronized ==
    /\ interrupts_synchronized(emu)
    /\ emu.fault # "interrupt_registers_not_synchronized"

-----------------------------------------------------------------------------
(* C3 *)

\* C3: at the end of a step that executed DI, IME is false (so no interrupt
\* is serviced after the next instruction), also when DI directly follows EI.
C3_DiLeavesImeClear == Executed(243) => ~cpu.ime

-----------------------------------------------------------------------------
(* C4 *)

\* The last step serviced no interrupt: it ended at the next opcode with
\* the stack and the interrupt line as they were.
NoDispatch ==
    /\ cpu.pc = U16(last.pre.c.pc + 1)
    /\ cpu.sp = last.pre.c.sp
    /\ emu.interrupts = last.pre.e.interrupts

\* C4 as stated: at the end of the step that executed EI, IME is still clear.
C4_EiLeavesImeClear == (Executed(251) /\ ~last.pre.c.ime) => ~cpu.ime

\* C4 amended: a step that executes EI with IME clear services no interrupt,
\* and IME is set at the end of that same step, after its interrupt check.
C4_EiSetsImeAfterItsCheck ==
    (Executed(251) /\ ~last.pre.c.ime) =>
        cpu.ime /\ cpu.ime_scheduled /\ NoDispatch

\* C4 witness: EI has run with IME clear while an interrupt was pending.
C4_EiRanWithPending ==
    Executed(251) /\ ~last.pre.c.ime /\ pending(emu) # 0 /\ cpu.ime

-----------------------------------------------------------------------------
(* C5 *)

\* The last step serviced the interrupt f out of the machine m it had
\* reached before the check.
Serviced(m, f) ==
    /\ Running(emu)
    /\ ~cpu.ime
    /\ cpu.mode = "Running"
    /\ emu.interrupts.interrupt_flag = m.e.interrupts.interrupt_flag - f
    /\ emu.interrupts.interrupt_enable = m.e.interrupts.interrupt_enable
    /\ cpu.sp = U16(m.c.sp + 65534)
    /\ peek(emu, U16(m.c.sp + 65535)) = m.c.pc \div 256
    /\ peek(emu, U16(m.c.sp + 65534)) = m.c.pc % 256
    /\ cpu.pc = 64 + 8 * BitIndex(f)

\* The last step left the machine m as it was but for the EI latch.
Unserviced(m) ==
    /\ emu = m.e
    /\ cpu.pc = m.c.pc
    /\ cpu.sp = m.c.sp
    /\ cpu.mode = m.c.mode

\* C5: at the end of a step, when IME is set and IE & IF is not zero the
\* lowest set bit b is serviced (IME cleared, IF bit b cleared, PC pushed high
\* byte first, PC = 0x40 + 8b, mode Running); otherwise nothing changes.
C5_InterruptService ==
    (last.op = "step" /\ last.pre.c.mode # "Stopped" /\ Alive(Mid)) =>
        IF Mid.c.ime /\ pending(Mid.e) # 0
        THEN Serviced(Mid, highest_priority(pending(Mid.e)))
        ELSE Unserviced(Mid)

-----------------------------------------------------------------------------
(* C6 *)

\* C6: every legal opcode, on every path, is charged its canonical number of
\* M-cycles.
C6_CanonicalCycles ==
    (InstructionRan /\ ~last.pre.c.ime) =>
        CyclesRun =
            IF OpcodeRun = 203 THEN CanonicalPrefixedCycles(SecondByteRun)
            ELSE CanonicalCycles[OpcodeRun + 1]
                   + (IF from_opcode(OpcodeRun).cond # "None" /\ BranchTaken
                      THEN CanonicalTakenExtra(from_opcode(OpcodeRun).itype)
                      ELSE 0)

-----------------------------------------------------------------------------
(* C7 *)

ControlTransfers == {"JP", "JR", "CALL", "RET", "RETI", "RST"}

\* C7: an opcode that is no control transfer, fetched at p, ends its step at
\* p + its canonical length; STOP counts as 2 bytes.
C7_PcAdvancesByLength ==
    (InstructionRan /\ ~last.pre.c.ime
       /\ from_opcode(OpcodeRun).itype \notin ControlTransfers) =>
        cpu.pc = U16(last.pre.c.pc + CanonicalLength[OpcodeRun + 1])

-----------------------------------------------------------------------------
(* C8 *)

\* C8 as stated: read_cycle returns the value the address had before the
\* tick.
C8_ReadReturnsPreTickValue ==
    (last.op = "read_cycle" /\ Running(emu)) =>
        last.result = peek(last.pre.e, last.addr)

\* C8 amended: read_cycle ticks first and returns the value the address has
\* after the tick.
C8_ReadReturnsPostTickValue ==
    (last.op = "read_cycle" /\ Running(emu)) =>
        last.result = peek(emu, last.addr)

\* C8 witness: TIMA was read on the very cycle that incremented it.
C8_TimaReadWhileCounting ==
    /\ last.op = "read_cycle" /\ last.addr = REG_TIMA /\ Running(emu)
    /\ peek(emu, REG_TIMA) # peek(last.pre.e, REG_TIMA)
    /\ last.result = peek(emu, REG_TIMA)

-----------------------------------------------------------------------------
(* C9 *)

\* C9 as stated: write_cycle applies the write before the tick, so after a
\* write to DIV the divider is 4 and after a write to 0xFF46 the DMA engine
\* has used up one cycle of its start delay.
C9_WriteAppliesBeforeTick ==
    (last.op = "write_cycle" /\ Running(emu)) =>
        /\ last.addr = REG_DIV => emu.timer.div = 4
        /\ last.addr = REG_DMA => emu.dma.start_delay = 1

\* C9 amended: write_cycle ticks first and then applies the write, so after
\* a write to DIV the divider is 0 and after a write to 0xFF46 the DMA engine
\* is active with its whole start delay of 2 ahead.
C9_WriteAppliesAfterTick ==
    (last.op = "write_cycle" /\ Running(emu)) =>
        /\ last.addr = REG_DIV => emu.timer.div = 0
        /\ last.addr = REG_DMA =>
              emu.dma.active /\ emu.dma.start_delay = 2 /\ emu.dma.byte = 0

\* C9 witness: DIV was written while the DMA engine was in its start delay.
C9_DivWrittenDuringDmaDelay ==
    /\ last.op = "write_cycle" /\ last.addr = REG_DIV /\ Running(emu)
    /\ emu.timer.div = 0
    /\ emu.dma.active /\ emu.dma.start_delay = 1

-----------------------------------------------------------------------------
(* C10 *)

\* C10: OAM-DMA from page P copies the page: byte i of OAM is the byte the
\* bus holds at (P << 8) + i, for every byte transferred so far.
C10_DmaCopiesPage ==
    \A i \in 0..159 :
        (emu.dma.value = DmaPage /\ i < emu.dma.byte) =>
            oam_read(emu, i) = bus_read(emu, DmaPage * 256 + i)

-----------------------------------------------------------------------------
(* C11 *)

\* The last operation was a memory cycle on an OAM address that ran to its
\* end.
OamAccess(op) ==
    /\ last.op = op
    /\ InRange(last.addr, 65024, 65183)
    /\ Running(emu)

\* C11: while an OAM-DMA transfer is active, a CPU read of 0xFE00..0xFE9F
\* returns 0xFF and a CPU write to that range leaves the 160 OAM bytes as the
\* transfer alone would have left them; while no transfer is active, the
\* read returns the stored OAM byte and the write stores its byte and
\* changes no other.  Whether a transfer is active is what the engine says
\* at the access itself, after the tick of the same memory cycle.
C11_OamGatedByDma ==
    /\ OamAccess("read_cycle") =>
            last.result = IF emu.dma.active THEN 255
                          ELSE oam_read(emu, last.addr)
    /\ OamAccess("write_cycle") =>
            \A i \in 0..159 :
                oam_read(emu, i) =
                    IF ~emu.dma.active /\ i = oam_index(last.addr)
                    THEN last.val
                    ELSE oam_read(tick_cycle(last.pre.e), i)

\* C11 witness: a read during an active transfer returned 0xFF although the
\* OAM byte read was already copied and holds another value.
C11_OamReadDuringTransfer ==
    /\ OamAccess("read_cycle")
    /\ emu.dma.active
    /\ emu.dma.byte > oam_index(last.addr)
    /\ oam_read(emu, last.addr) # 255
    /\ last.result = 255

-----------------------------------------------------------------------------
(* C12 *)

\* TIMA is incremented on T-cycle k (0..3) of a memory cycle that starts with
\* the timer t: the timer is enabled and the selected divider bit falls.
TimaClocked(t, k) ==
    /\ Bit(t.tac, 2) = 1
    /\ Bit(U16(t.div + k), TimerBit(t.tac)) = 1
    /\ Bit(U16(t.div + k + 1), TimerBit(t.tac)) = 0

\* C12: TIMA is reloaded from TMA and TIMER is raised in IF exactly on the
\* increment that wraps TIMA from 0xFF to 0x00.  Over one tick_cycle: an
\* increment of TIMA = 0xFF leaves TIMA = TMA and IF bit 2 set; an increment
\* of any other TIMA leaves TIMA + 1 and IF as it was (from 0xFE: 0xFF and no
\* request); without an increment TIMA and IF stay.
C12_TimaReloadsOnWrap ==
    (last.op = "tick_cycle" /\ Running(emu)) =>
        LET t == last.pre.e.timer
            ifr == last.pre.e.interrupts.interrupt_flag
            clocked == \E k \in 0..3 : TimaClocked(t, k)
        IN  IF clocked /\ t.tima = 255
            THEN /\ emu.timer.tima = t.tma
                 /\ emu.interrupts.interrupt_flag = Or(ifr, TIMER)
            ELSE /\ emu.timer.tima = IF clocked THEN t.tima + 1 ELSE t.tima
                 /\ emu.interrupts.interrupt_flag = ifr

-----------------------------------------------------------------------------
(* C13 *)

\* C13: a write_cycle of v to an LCD register other than LY (LCDC, STAT,
\* SCY, SCX, LYC, BGP, OBP0, OBP1, WY, WX) updates the PPU's LCD register
\* block as LCD::write does, and after a write of b to BGP background palette
\* slot i is DEFAULT_COLORS[(b >> 2i) & 3] for i in 0..3.
C13_LcdWriteReachesPpu ==
    (/\ last.op = "write_cycle"
     /\ last.addr \in LcdRegisters \ {REG_LY}
     /\ Running(emu)) =>
        /\ emu.ppu.lcd = LCD_write(last.pre.e.ppu.lcd, last.addr, last.val)
        /\ last.addr = REG_BGP =>
                \A i \in 0..3 :
                    emu.ppu.lcd.bg_colors[i + 1] =
                        DEFAULT_COLORS[((last.val \div Pow2(2 * i)) % 4) + 1]

-----------------------------------------------------------------------------
(* C14 *)

\* C14: the flag accessors are views of register F.  In every state of the
\* CPU, the power-on state included, zf, nf, hf and cf are bits 7, 6, 5 and 4
\* of the byte read8(F) returns, which is the low byte of read16(AF).
C14_FlagsAreBitsOfF ==
    /\ read16(cpu, "AF") % 256 = read8(cpu, "F")
    /\ zf(cpu) = (Bit(read8(cpu, "F"), 7) = 1)
    /\ nf(cpu) = (Bit(read8(cpu, "F"), 6) = 1)
    /\ hf(cpu) = (Bit(read8(cpu, "F"), 5) = 1)
    /\ cf(cpu) = (Bit(read8(cpu, "F"), 4) = 1)

-----------------------------------------------------------------------------
(* C15 *)

\* C15: the low nibble of F is always zero.  After write8(F, v) the F read
\* back is v & 0xF0, after write16(AF, w) it is w & 0xF0, and F & 0x0F = 0
\* in every state of the register file.
C15_LowNibbleOfFIsZero ==
    /\ (last.op = "write8" /\ last.addr = "F") =>
            read8(cpu, "F") = And(last.val, 240)
    /\ (last.op = "write16" /\ last.addr = "AF") =>
            read8(cpu, "F") = And(last.val % 256, 240)
    /\ And(read8(cpu, "F"), 15) = 0

-----------------------------------------------------------------------------
(* C16 *)

\* The instruction the last step executed, and the one before it.
Ran(itype) == InstructionRan /\ cpu.instruction.itype = itype

\* The step before the last one executed an instruction of this type, and
\* the last step fetched the byte that follows it.
RanBefore(itype) ==
    /\ last.n >= 2
    /\ last.pre.c.instruction.itype = itype
    /\ ~last.pre.c.ime

\* v with the low nibble cleared when the target pair is AF.
AsStoredIn(qq, v) == IF qq = "AF" THEN v - (v % 16) ELSE v

\* C16: PUSH rr takes the opcode fetch, one internal cycle, then writes the
\* MSB of rr at SP-1 and the LSB at SP-2, leaving SP-2 and the registers as
\* they were; POP qq executed next reads the LSB, then the MSB, and leaves
\* qq = rr (low nibble cleared when qq is AF) and SP as before the PUSH.
C16_PushPopRoundTrip ==
    /\ (Ran("PUSH") /\ ~last.pre.c.ime) =>
            LET c0 == last.pre.c
                v == read16(c0, cpu.instruction.reg1)
                sp1 == U16(c0.sp + 65535)
                sp2 == U16(c0.sp + 65534)
                fetched == read_cycle(last.pre.e, c0.pc).e
            IN  /\ emu = write_cycle(
                             write_cycle(tick_cycle(fetched), sp1, v \div 256),
                             sp2, v % 256)
                /\ peek(emu, sp1) = v \div 256
                /\ peek(emu, sp2) = v % 256
                /\ cpu.sp = sp2
                /\ cpu.registers = c0.registers
    /\ (Ran("POP") /\ RanBefore("PUSH")) =>
            LET c0 == last.pre.c
                v == read16(c0, c0.instruction.reg1)
                lo == read_cycle(read_cycle(last.pre.e, c0.pc).e, c0.sp)
                hi == read_cycle(lo.e, U16(c0.sp + 1))
            IN  /\ read16(cpu, cpu.instruction.reg1) =
                       AsStoredIn(cpu.instruction.reg1, v)
                /\ lo.v = v % 256 /\ hi.v = v \div 256
                /\ emu = hi.e
                /\ cpu.sp = U16(c0.sp + 2)

\* C16 witness: PUSH BC; POP AF with BC = 0x1234 ended with A = 0x12,
\* F = 0x30 and SP back at 0xFFFE.
C16_PushBcPopAf ==
    /\ Ran("POP") /\ RanBefore("PUSH")
    /\ last.pre.c.instruction.reg1 = "BC"
    /\ read16(last.pre.c, "BC") = 4660
    /\ cpu.instruction.reg1 = "AF"
    /\ read8(cpu, "A") = 18 /\ read8(cpu, "F") = 48
    /\ cpu.sp = 65534

-----------------------------------------------------------------------------
(* C17 *)

\* C17: an unconditional CALL a16 fetched at p with SP = s leaves SP = s-2,
\* the low byte of p+3 at s-2, the high byte at s-1, PC = a16, and costs 6
\* M-cycles; a RET executed next returns to the address on the stack,
\* restores SP = s and costs 4 M-cycles.  From PC = 0x0150, SP = 0xFFFE:
\* SP = 0xFFFC, bytes 0x53, 0x01, then PC = 0x0153, SP = 0xFFFE.
C17_CallThenRet ==
    /\ (Executed(205) /\ ~last.pre.c.ime) =>
            LET p == last.pre.c.pc
                s == last.pre.c.sp
                back == U16(p + 3)
            IN  /\ cpu.sp = U16(s + 65534)
                /\ peek(emu, U16(s + 65534)) = back % 256
                /\ peek(emu, U16(s + 65535)) = back \div 256
                /\ cpu.pc = peek(last.pre.e, U16(p + 1))
                               + 256 * peek(last.pre.e, U16(p + 2))
                /\ CyclesRun = 6
                /\ (p = 336 /\ s = 65534) =>
                        /\ cpu.sp = 65532 /\ cpu.pc = 340
                        /\ peek(emu, 65532) = 83 /\ peek(emu, 65533) = 1
    /\ (Executed(201) /\ RanBefore("CALL") /\ last.pre.c.cur_opcode = 205) =>
            LET s2 == last.pre.c.sp
            IN  /\ cpu.pc = peek(last.pre.e, s2)
                               + 256 * peek(last.pre.e, U16(s2 + 1))
                /\ cpu.sp = U16(s2 + 2)
                /\ CyclesRun = 4
                /\ (last.pre.c.pc = 340 /\ s2 = 65532) =>
                        cpu.pc = 339 /\ cpu.sp = 65534

\* C17 witness: the RET of the program CALL 0x0154 at 0x0150 came back to
\* 0x0153 with SP = 0xFFFE.
C17_ReturnedTo0153 ==
    /\ Executed(201) /\ RanBefore("CALL") /\ last.pre.c.cur_opcode = 205
    /\ last.pre.c.pc = 340 /\ last.pre.c.sp = 65532
    /\ cpu.pc = 339 /\ cpu.sp = 65534
    /\ CyclesRun = 4

-----------------------------------------------------------------------------
(* C18 *)

IllegalOpcodes == {211, 219, 221, 227, 228, 235, 236, 237, 244, 252, 253}

\* C18: an illegal opcode is an error value, not a crash.  A step that
\* fetches one of the eleven illegal bytes at PC ends without a panic, so
\* that the host stays inspectable; every other first byte decodes to a
\* descriptor (0xCB through the prefixed table).
C18_IllegalOpcodeIsErrorValue ==
    /\ (/\ last.op = "step"
        /\ last.pre.c.mode = "Running"
        /\ Running(read_cycle(last.pre.e, last.pre.c.pc).e)
        /\ OpcodeRun \in IllegalOpcodes) => Running(emu)
    /\ \A op \in (0..255) \ (IllegalOpcodes \cup {203}) :
            from_opcode(op).itype # "PANIC"

-----------------------------------------------------------------------------
(* C20 *)

\* C20: a bus write followed by a bus read of the same address returns the
\* written byte, for work RAM, high RAM and VRAM, whatever the DMA engine
\* does and however many ticks pass in between.  In steps: a write_cycle
\* leaves its byte readable at its address, no other memory cycle changes
\* the byte readable at an address of these regions, and a read_cycle
\* returns the byte readable when it was called.
C20_RamReadsBackWrite ==
    MemoryCycleRan =>
        /\ \A a \in RamAddrs :
                peek(emu, a) =
                    IF last.op = "write_cycle" /\ last.addr = a
                    THEN last.val
                    ELSE peek(last.pre.e, a)
        /\ (last.op = "read_cycle" /\ last.addr \in RamAddrs) =>
                last.result = peek(last.pre.e, last.addr)

\* C20 witness: a read of VRAM during an OAM-DMA transfer returned the byte
\* written two memory cycles before.
C20_VramReadDuringDma ==
    /\ MemoryCycleRan /\ last.op = "read_cycle"
    /\ InRange(last.addr, 32768, 40959)
    /\ emu.dma.active
    /\ last.pre.e.dma.active
    /\ last.result = 165

-----------------------------------------------------------------------------
(* C19 *)

\* The machine at the end of the step the CPU thread is in the middle of.
RECURSIVE RestOfStep(_)
RestOfStep(p) ==
    IF p.at \in {"idle", "debug_update"} \/ ~Alive(p.m) THEN p.m
    ELSE RestOfStep(PartAt(p.m, p.at, p.held))

\* The CPU thread has run the opcode fetch of an instruction and has memory
\* cycles of the same step still to run.
BetweenCyclesOfAStep ==
    /\ threads.cpu_at # "idle"
    /\ RestOfStep(CpuAt([c |-> cpu, e |-> emu], threads.cpu_at,
                        threads.held)).e.ticks > emu.ticks

\* C19: the mutex on the host is held across a whole CPU step: no other
\* thread holds it between two memory cycles of the same instruction.
C19_LockHeldAcrossStep == threads.lock = "frontend" => ~BetweenCyclesOfAStep

\* A dot of the PPU was the last operation.
PpuTicked == last.op = "ppu_tick"

\* The last dot was the end-of-line update of an HBlank line and made LY 144.
VBlankEntry ==
    /\ PpuTicked
    /\ Running(emu)
    /\ get_mode(last.pre.e.ppu.lcd) = MODE_HBLANK
    /\ last.pre.e.ppu.line_ticks + 1 >= TICKS_PER_LINE
    /\ emu.ppu.lcd.ly = YRES

\* C21: a dot never lowers the frame counter; it raises it by exactly one
\* when it is the end-of-line update that makes LY 144 and leaves it alone
\* otherwise, so that after n dots from power-on the counter is the number
\* of VBlank entries among them: one per 154 scanlines of 456 dots, the
\* first after 144 scanlines.
C21_FrameCounterCountsVBlankEntries ==
    PpuTicked =>
        /\ emu.ppu.current_frame =
               last.pre.e.ppu.current_frame + (IF VBlankEntry THEN 1 ELSE 0)
        /\ Running(emu) =>
               emu.ppu.current_frame =
                   (last.n + (LINES_PER_FRAME - YRES) * TICKS_PER_LINE)
                       \div (LINES_PER_FRAME * TICKS_PER_LINE)

\* C21 witness: the second VBlank entry, counted as frame 2.
C21_SecondFrameCounted == VBlankEntry /\ emu.ppu.current_frame = 2

\* C22: a read cycle at LY (0xFF44) returns the scanline the PPU holds, or
\* 0 when LCDC bit 7 is clear, whatever was last written to 0xFF44.
C22_LyReadIsPpuScanline ==
    (last.op = "read_cycle" /\ last.addr = REG_LY /\ Running(emu)) =>
        \/ last.result = emu.ppu.lcd.ly
        \/ ~contains(emu.ppu.lcd.lcdc, LCD_PPU_ENABLE) /\ last.result = 0

\* The accumulator, the operand and the carry flag the last step began with.
AluA == last.pre.c.registers["A"]

AluV == SecondByteRun

AluCarry == IF cf(last.pre.c) THEN 1 ELSE 0

\* The carry-in of the opcode run: the carry flag for ADC and SBC, else 0.
AluC == IF OpcodeRun \in {206, 222} THEN AluCarry ELSE 0

\* C23: ADD and ADC leave A = (A+v+c) mod 256 with Z = (A = 0), N = 0,
\* H = ((A&0xF)+(v&0xF)+c > 0xF), C = (A+v+c > 0xFF); SUB, SBC and CP
\* compute (A-v-c) mod 256 with Z = (result = 0), N = 1,
\* H = ((A&0xF) < (v&0xF)+c), C = (A < v+c); SUB and SBC store the result
\* in A and CP leaves A as it was.  c is the carry flag for ADC and SBC
\* and 0 for the others.
C23_AluResultsAndFlags ==
    (InstructionRan /\ OpcodeRun \in AluOpcodes) =>
        IF OpcodeRun \in {198, 206}
        THEN /\ cpu.registers["A"] = (AluA + AluV + AluC) % 256
             /\ zf(cpu) = (cpu.registers["A"] = 0)
             /\ ~nf(cpu)
             /\ hf(cpu) = ((AluA % 16) + (AluV % 16) + AluC > 15)
             /\ cf(cpu) = (AluA + AluV + AluC > 255)
        ELSE /\ cpu.registers["A"] =
                    IF OpcodeRun = 254 THEN AluA
                    ELSE (AluA + 512 - AluV - AluC) % 256
             /\ zf(cpu) = ((AluA + 512 - AluV - AluC) % 256 = 0)
             /\ nf(cpu)
             /\ hf(cpu) = ((AluA % 16) < (AluV % 16) + AluC)
             /\ cf(cpu) = (AluA < AluV + AluC)

\* C23 witness: SBC A,0xFF with A = 0 and the carry set gives 0 with Z, H
\* and C set.
C23_SbcBorrowsIntoZero ==
    /\ Executed(222)
    /\ AluA = 0 /\ AluV = 255 /\ AluCarry = 1
    /\ cpu.registers["A"] = 0
    /\ zf(cpu) /\ nf(cpu) /\ hf(cpu) /\ cf(cpu)

\* C24: the descriptor the prefixed decoder returned for the opcode the
\* last step ran is returned for no other opcode, so that the opcode can be
\* recovered from the descriptor alone.
C24_PrefixedDecodingInvertible ==
    (InstructionRan /\ OpcodeRun = 203) =>
        \A o \in 0..255 :
            from_opcode_prefixed(o) = cpu.instruction => o = SecondByteRun

\* C25: the step that executes STOP leaves the CPU Stopped, whatever IME,
\* IE and IF are, and a step taken in Stopped mode changes neither the CPU
\* nor the host.
C25_StopIsAbsorbing ==
    /\ Executed(16) => cpu.mode = "Stopped"
    /\ (last.op = "step" /\ last.pre.c.mode = "Stopped") =>
           (cpu = last.pre.c /\ emu = last.pre.e)

\* The last step began in Halted mode and ended without a fatal error.
HaltedStepRan ==
    /\ last.op = "step"
    /\ last.pre.c.mode = "Halted"
    /\ Running(emu)

\* The last step ran the interrupt service: IME was set and it was cleared.
ServiceRan == last.pre.c.ime /\ ~cpu.ime

\* C26: a step in Halted mode leaves Halted exactly when IE & IF is nonzero
\* after the cycle it charges, whatever IME is; unless the interrupt
\* service runs in the same step it charges exactly one M-cycle and changes
\* no register, PC and SP included, and with IME clear it clears no bit of
\* IF.
C26_HaltedStepWakesOnPending ==
    HaltedStepRan =>
        /\ (cpu.mode = "Running") <=> (pending(emu) # 0)
        /\ ~ServiceRan =>
              /\ CyclesRun = 1
              /\ cpu.registers = last.pre.c.registers
              /\ cpu.flags = last.pre.c.flags
              /\ cpu.pc = last.pre.c.pc
              /\ cpu.sp = last.pre.c.sp
        /\ ~last.pre.c.ime =>
              And(last.pre.e.interrupts.interrupt_flag,
                  emu.interrupts.interrupt_flag)
                = last.pre.e.interrupts.interrupt_flag

\* JR cc,e8; JP cc,a16; CALL cc,a16; RET cc.
ConditionalOpcodes ==
    {32, 40, 48, 56, 194, 202, 210, 218, 196, 204, 212, 220,
     192, 200, 208, 216}

\* The condition bits 4..3 of a conditional opcode select (NZ, Z, NC, C),
\* judged on the flags the last step began with.
ConditionHeld ==
    CASE (OpcodeRun \div 8) % 4 = 0 -> ~zf(last.pre.c)
      [] (OpcodeRun \div 8) % 4 = 1 -> zf(last.pre.c)
      [] (OpcodeRun \div 8) % 4 = 2 -> ~cf(last.pre.c)
      [] OTHER -> cf(last.pre.c)

\* The last step ran a conditional JP, JR, CALL or RET whose condition was
\* false, with IME clear.
ConditionFailed ==
    /\ InstructionRan
    /\ ~last.pre.c.ime
    /\ OpcodeRun \in ConditionalOpcodes
    /\ ~ConditionHeld

\* C27: a conditional JP, JR, CALL or RET whose condition is false only
\* fetches: PC ends at the next instruction, SP, the registers, the flags
\* and all memory are as before, and the cycles charged are the fetch
\* cycles, one per byte of the instruction.
C27_FailedConditionOnlyFetches ==
    ConditionFailed =>
        /\ cpu.pc = U16(last.pre.c.pc + CanonicalLength[OpcodeRun + 1])
        /\ cpu.sp = last.pre.c.sp
        /\ cpu.registers = last.pre.c.registers
        /\ cpu.flags = last.pre.c.flags
        /\ emu.bytes = last.pre.e.bytes
        /\ emu.ppu = last.pre.e.ppu
        /\ CyclesRun = CanonicalLength[OpcodeRun + 1]

\* C27 witness: CALL Z,a16 with Z clear went on to the next instruction.
C27_CallZNotTaken ==
    /\ ConditionFailed
    /\ OpcodeRun = 204
    /\ cpu.pc = U16(last.pre.c.pc + 3)
    /\ cpu.sp = last.pre.c.sp

\* The divider bit TAC selects went from 1 to 0 in the last timer tick.
SelectedBitFell ==
    LET n == CASE last.pre.e.timer.tac % 4 = 0 -> 9
               [] last.pre.e.timer.tac % 4 = 1 -> 3
               [] last.pre.e.timer.tac % 4 = 2 -> 5
               [] OTHER -> 7
    IN  /\ (last.pre.e.timer.div \div Pow2(n)) % 2 = 1
        /\ (emu.timer.div \div Pow2(n)) % 2 = 0

TimerEnabled == (last.pre.e.timer.tac \div 4) % 2 = 1

\* C28: a timer tick adds exactly 1 to the 16-bit divider modulo 2^16;
\* TIMA changes in the tick iff TAC bit 2 is set and the divider bit TAC
\* selects falls in it; with TAC bit 2 clear the tick changes neither TIMA
\* nor IF.
C28_TimaChangesOnFallingEdge ==
    last.op = "timer_tick" =>
        /\ emu.timer.div = (last.pre.e.timer.div + 1) % 65536
        /\ (emu.timer.tima # last.pre.e.timer.tima)
              <=> (TimerEnabled /\ SelectedBitFell)
        /\ ~TimerEnabled =>
              /\ emu.timer.tima = last.pre.e.timer.tima
              /\ emu.interrupts = last.pre.e.interrupts

\* M-cycle steps a transfer still needs: its start delay and its bytes.
DmaRemaining(d) == IF d.active THEN d.start_delay + (160 - d.byte) ELSE 0

\* C29: a write to 0xFF46, also one made while a transfer is active, leaves
\* the engine active at byte 0 with 162 M-cycle steps to go (2 delay + 160
\* copies); every later memory cycle takes exactly one step off and the
\* engine is inactive when none is left and stays so; the byte counter is
\* within 0..160 in every reachable state.
C29_DmaAlwaysFinishes ==
    /\ emu.dma.byte \in 0..160
    /\ (last.op = "write_cycle" /\ last.addr = REG_DMA) =>
          /\ emu.dma.active /\ emu.dma.byte = 0
          /\ DmaRemaining(emu.dma) = 162
    /\ (last.op = "tick_cycle" /\ last.pre.e.dma.active) =>
          /\ DmaRemaining(emu.dma) = DmaRemaining(last.pre.e.dma) - 1
          /\ emu.dma.active <=> DmaRemaining(emu.dma) > 0
    /\ (last.op = "tick_cycle" /\ ~last.pre.e.dma.active) => ~emu.dma.active

\* The mode before and after the last dot, and the dot's number in its line.
ModeBefore == get_mode(last.pre.e.ppu.lcd)

ModeAfter == get_mode(emu.ppu.lcd)

DotOfLine == last.pre.e.ppu.line_ticks + 1

\* C30: a dot changes the mode only from OAM-scan to pixel transfer, from
\* pixel transfer to HBlank, from HBlank to OAM-scan (new LY below 144) or
\* to VBlank (new LY 144 or more), and from VBlank to OAM-scan with LY back
\* at 0; OAM-scan is left on dot 80 of the line and on no other; the
\* per-line tick counter is reset on dot 456 of the line and on no other,
\* by an HBlank or a VBlank dot, so that every scanline lasts 456 dots.
C30_ModeCycleAndLineLength ==
    (PpuTicked /\ Running(emu)) =>
        /\ ModeAfter # ModeBefore =>
              \/ ModeBefore = MODE_OAM /\ ModeAfter = MODE_XFER
              \/ ModeBefore = MODE_XFER /\ ModeAfter = MODE_HBLANK
              \/ /\ ModeBefore = MODE_HBLANK /\ ModeAfter = MODE_OAM
                 /\ emu.ppu.lcd.ly < YRES
              \/ /\ ModeBefore = MODE_HBLANK /\ ModeAfter = MODE_VBLANK
                 /\ emu.ppu.lcd.ly >= YRES
              \/ /\ ModeBefore = MODE_VBLANK /\ ModeAfter = MODE_OAM
                 /\ emu.ppu.lcd.ly = 0 /\ last.pre.e.ppu.lcd.ly = 153
        /\ ModeBefore = MODE_OAM =>
              (ModeAfter = MODE_XFER <=> DotOfLine = OamScanDots)
        /\ emu.ppu.line_ticks =
              IF DotOfLine = TICKS_PER_LINE THEN 0 ELSE DotOfLine
        /\ DotOfLine = TICKS_PER_LINE =>
              /\ ModeBefore \in {MODE_HBLANK, MODE_VBLANK}
              /\ emu.ppu.lcd.ly = (last.pre.e.ppu.lcd.ly + 1) % LINES_PER_FRAME
              /\ ModeBefore = MODE_HBLANK => ModeAfter # MODE_HBLANK

\* C30 witness: the last dot of line 153 took the PPU from VBlank back to
\* OAM-scan of line 0, the first frame being complete.
C30_FrameWrapsToOamScan ==
    /\ PpuTicked /\ Running(emu)
    /\ ModeBefore = MODE_VBLANK /\ ModeAfter = MODE_OAM
    /\ DotOfLine = TICKS_PER_LINE
    /\ emu.ppu.lcd.ly = 0 /\ emu.ppu.line_ticks = 0
    /\ emu.ppu.current_frame = 1

\* C31: between dots LY is within 0..153, STAT bits 1-0 are the mode, the
\* mode is VBlank iff LY is within 144..153, and OAM-scan, pixel transfer
\* and HBlank occur only with LY within 0..143.
C31_ModeMatchesLy ==
    Running(emu) =>
        /\ emu.ppu.lcd.ly \in 0..153
        /\ LCD_read(emu.ppu.lcd, REG_STAT) % 4 = get_mode(emu.ppu.lcd)
        /\ (get_mode(emu.ppu.lcd) = MODE_VBLANK)
              <=> (emu.ppu.lcd.ly \in YRES..153)
        /\ get_mode(emu.ppu.lcd) \in {MODE_OAM, MODE_XFER, MODE_HBLANK}
              => emu.ppu.lcd.ly \in 0..(YRES - 1)

\* C39: a write of v to STAT stores bits 6..3 of v and leaves bit 2 (LYC
\* equals LY) and bits 1-0 (the mode) as they were.
C39_StatLowBitsReadOnly ==
    (last.op = "lcd_write" /\ last.addr = REG_STAT) =>
        /\ emu.ppu.lcd.lcds =
              (last.val % 128) - (last.val % 8) + (last.pre.e.ppu.lcd.lcds % 8)
        /\ get_mode(emu.ppu.lcd) = get_mode(last.pre.e.ppu.lcd)

\* The last dot was an end-of-line update: the dot of an HBlank or VBlank
\* line on which the per-line tick counter reached 456.
EndOfLineUpdate ==
    /\ PpuTicked /\ Running(emu)
    /\ ModeBefore \in {MODE_HBLANK, MODE_VBLANK}
    /\ DotOfLine >= TICKS_PER_LINE

LcdPending(e) == contains(e.interrupts.interrupt_flag, LCD)

LyIsLyc == emu.ppu.lcd.ly = emu.ppu.lcd.lyc

\* C32: after an end-of-line update, the wrap from 153 to 0 included, STAT
\* bit 2 is set iff the LY the update leaves equals LYC; LCD is requested
\* if they are equal and STAT bit 6 is set, and the update requests LCD for
\* no other reason than that or the VBlank entry with STAT bit 4 set.
C32_LycFlagFollowsNewLy ==
    EndOfLineUpdate =>
        /\ contains(emu.ppu.lcd.lcds, LYC_EQUAL_LY) <=> LyIsLyc
        /\ (LyIsLyc /\ contains(emu.ppu.lcd.lcds, LYC_INT_SELECT))
              => LcdPending(emu)
        /\ (LcdPending(emu) /\ ~LcdPending(last.pre.e)) =>
              \/ LyIsLyc /\ contains(emu.ppu.lcd.lcds, LYC_INT_SELECT)
              \/ /\ emu.ppu.lcd.ly = YRES /\ ModeBefore = MODE_HBLANK
                 /\ contains(emu.ppu.lcd.lcds, VBLANK_INT_SELECT)

VblankPending(e) == contains(e.interrupts.interrupt_flag, VBLANK)

\* LCD went from not pending to pending in the last dot.
LcdRaised == LcdPending(emu) /\ ~LcdPending(last.pre.e)

VblankSelected == contains(emu.ppu.lcd.lcds, VBLANK_INT_SELECT)

\* C33 as stated: at VBlank entry VBLANK is requested whatever STAT and
\* LCDC hold, and LCD is requested iff STAT bit 4 is set; no other dot
\* requests VBLANK.
C33_LcdAtVBlankEntryIffBit4 ==
    /\ VBlankEntry =>
          /\ VblankPending(emu)
          /\ VblankSelected => LcdPending(emu)
          /\ LcdRaised => VblankSelected
    /\ (PpuTicked /\ VblankPending(emu) /\ ~VblankPending(last.pre.e))
          => VBlankEntry

\* The same with the LYC match of the update left to C32: at VBlank entry
\* LCD is requested if STAT bit 4 is set, and otherwise only when LYC is
\* 144 and STAT bit 6 is set.
VBlankEntryRequests ==
    /\ VBlankEntry =>
          /\ VblankPending(emu)
          /\ VblankSelected => LcdPending(emu)
          /\ LcdRaised =>
                \/ VblankSelected
                \/ LyIsLyc /\ contains(emu.ppu.lcd.lcds, LYC_INT_SELECT)
    /\ (PpuTicked /\ VblankPending(emu) /\ ~VblankPending(last.pre.e))
          => VBlankEntry

\* OAM entry i has X other than 0 and its band [Y, Y + H) holds LY + 16.
OnLine(e, i) ==
    /\ Sprite(e, i).x # 0
    /\ Sprite(e, i).y <= e.ppu.lcd.ly + 16
    /\ e.ppu.lcd.ly + 16 < Sprite(e, i).y + get_sprite_height(e.ppu.lcd)

\* s with sprite put behind every entry whose X is not greater.
RECURSIVE PlaceByX(_, _)
PlaceByX(s, sprite) ==
    IF s = <<>> THEN <<sprite>>
    ELSE IF Head(s).x > sprite.x THEN <<sprite>> \o s
    ELSE <<Head(s)>> \o PlaceByX(Tail(s), sprite)

\* The list the selection rule gives for OAM entries i..39, k of them
\* being selected already.
RECURSIVE SelectedFrom(_, _, _, _)
SelectedFrom(e, i, k, s) ==
    IF i >= SpriteCount \/ k >= MaxLineSprites THEN s
    ELSE IF OnLine(e, i)
    THEN SelectedFrom(e, i + 1, k + 1, PlaceByX(s, Sprite(e, i)))
    ELSE SelectedFrom(e, i + 1, k, s)

\* The last dot was the one on which the line's sprites are collected.
OamScanned ==
    /\ PpuTicked /\ Running(emu)
    /\ ModeBefore = MODE_OAM /\ DotOfLine = 1

\* C34: after the OAM scan of a line the line's sprite list is the first
\* (at most 10) OAM entries on the line, each once, ordered by X with equal
\* X in OAM order; the list never holds more than 10 entries.
C34_LineSpritesSelected ==
    /\ OamScanned => emu.ppu.line_sprites = SelectedFrom(emu, 0, 0, <<>>)
    /\ Len(emu.ppu.line_sprites) <= MaxLineSprites

\* Pixels the last dot added to the FIFO and pixels it popped from it.
FifoAdded == emu.ppu.pixel_fifo.fifo_x - last.pre.e.ppu.pixel_fifo.fifo_x

FifoPopped == emu.ppu.pixel_fifo.line_x - last.pre.e.ppu.pixel_fifo.line_x

FifoBefore == Len(last.pre.e.ppu.pixel_fifo.fifo)

\* The last dot was a pixel-transfer dot.
TransferDot == PpuTicked /\ Running(emu) /\ ModeBefore = MODE_XFER

\* The last dot ran the fetcher in its Push state.
PushRan ==
    /\ TransferDot /\ DotOfLine % 2 = 0
    /\ last.pre.e.ppu.pixel_fifo.fetch_state = "Push"

\* C35: the FIFO never holds more than 16 pixels; a dot pops a pixel only
\* from a FIFO of more than 8; pixels are added only by the fetcher's Push
\* state to a FIFO of at most 8, 8 or 0 at a time, and on a FIFO of more
\* than 8 Push adds nothing and remains Push.
C35_FifoDiscipline ==
    /\ Len(emu.ppu.pixel_fifo.fifo) <= 16
    /\ TransferDot =>
          /\ FifoAdded \in {0, 8}
          /\ FifoPopped \in {0, 1}
          /\ FifoPopped = 1 => FifoBefore + FifoAdded > 8
          /\ FifoAdded = 8 => PushRan /\ FifoBefore <= 8
          /\ (PushRan /\ FifoBefore > 8) =>
                /\ FifoAdded = 0
                /\ emu.ppu.pixel_fifo.fetch_state = "Push"
          /\ ModeAfter = MODE_XFER =>
                Len(emu.ppu.pixel_fifo.fifo)
                    = FifoBefore + FifoAdded - FifoPopped

\* C35 witness: Push added 8 pixels to a FIFO of 8 and the same dot popped
\* one of the 16.
C35_PushFillsThenPops ==
    /\ PushRan /\ FifoBefore = 8 /\ FifoAdded = 8 /\ FifoPopped = 1
    /\ Len(emu.ppu.pixel_fifo.fifo) = 15

\* The last dot wrote the 160th pixel of the line.
LastPixelPushed ==
    /\ TransferDot
    /\ last.pre.e.ppu.pixel_fifo.pushed_x < XRES
    /\ emu.ppu.pixel_fifo.pushed_x = XRES

\* C36: the dot on which pushed_x reaches 160 empties the FIFO, makes the
\* mode HBlank and requests LCD iff STAT bit 3 is set; whatever the last
\* operation was, the mode has not left pixel transfer while pushed_x is
\* below 160.
C36_TransferEndsAtPixel160 ==
    /\ LastPixelPushed =>
          /\ emu.ppu.pixel_fifo.fifo = <<>>
          /\ ModeAfter = MODE_HBLANK
          /\ contains(emu.ppu.lcd.lcds, HBLANK_INT_SELECT) => LcdPending(emu)
          /\ LcdRaised => contains(emu.ppu.lcd.lcds, HBLANK_INT_SELECT)
    /\ (Running(emu) /\ ModeBefore = MODE_XFER /\ ModeAfter # MODE_XFER)
          => emu.ppu.pixel_fifo.pushed_x >= XRES

\* C37: pixel transfer is over before dot 456 of its line: while the mode
\* is pixel transfer the line's tick counter is below 455 and the PPU has
\* not stopped on an error, so that it goes on to pushed_x = 160 and HBlank.
C37_TransferCompletesInLine ==
    get_mode(emu.ppu.lcd) = MODE_XFER =>
        /\ emu.ppu.line_ticks < TICKS_PER_LINE - 1
        /\ Running(emu)

\* The last dot stored a pixel in the frame buffer.
PixelWritten ==
    /\ TransferDot
    /\ emu.ppu.pixel_fifo.pushed_x = last.pre.e.ppu.pixel_fifo.pushed_x + 1

\* C38: a pixel is stored only with pushed_x below 160 and LY below 144,
\* at index pushed_x + LY * 160, and no store is out of the buffer's
\* bounds; pushed_x is within 0..160 in every state and is 0 when a line's
\* pixel transfer begins.
C38_FramebufferWritesInBounds ==
    /\ emu.fault # "video_buffer_index_out_of_bounds"
    /\ emu.ppu.pixel_fifo.pushed_x \in 0..XRES
    /\ PixelWritten =>
          /\ last.pre.e.ppu.pixel_fifo.pushed_x < XRES
          /\ emu.ppu.lcd.ly < YRES
          /\ emu.ppu.video_buffer.index
                = last.pre.e.ppu.pixel_fifo.pushed_x + emu.ppu.lcd.ly * XRES
          /\ emu.ppu.video_buffer.index < XRES * YRES
    /\ (PpuTicked /\ ModeBefore = MODE_OAM /\ ModeAfter = MODE_XFER)
          => emu.ppu.pixel_fifo.pushed_x = 0

\* C40: a bus read completes with a byte for every address: no read cycle
\* ends in an index beyond the cartridge image.
C40_BusReadCompletes ==
    last.op = "read_cycle" => emu.fault # "rom_index_out_of_bounds"

====
